---- MODULE Spec2Model ----
(***************************************************************************)
(* Model of the cxfw patch utility: the forward executor                   *)
(* (cxfw_patch_executor), the rollback executor (cxfw_patch_rollback),     *)
(* their encrypted integrity ledger (.db.json) and folder pointer          *)
(* (.<folder>.json), and the defaults file the forward executor edits.     *)
(* Spec is the manifest engine of both executors run any number of times   *)
(* on one device; SpecLedger calls the two ledger functions on their own.  *)
(* SpecConfig is the defaults file under modify_defaults and the defaults  *)
(* comparison tool (generate_defaultvalue_restore); SpecCipher is the      *)
(* cipher on byte sequences; SpecKey is the fetch of the key from the      *)
(* image inside the ledger and pointer functions; SpecInstaller is the     *)
(* installer script (patch_processor.sh), LiveInstaller the same with the  *)
(* shell running its next command as long as it has one.                   *)
(*                                                                         *)
(* A path is a sequence of tokens: "/" is the separator, every other token *)
(* is a piece of a file name.  A file is a record: NoFile, Data(c) for a   *)
(* payload with content c, or an encrypted blob                            *)
(* [t |-> "enc", key, nonce, plain].                                       *)
(***************************************************************************)
EXTENDS Integers, Sequences, FiniteSets, TLC

VARIABLES fs,        \* the file system: path -> file
          exe,       \* which executor runs: "none", "forward", "rollback"
          pc,        \* "idle", "loop", "ran", "exited"
                     \* ("ledger", "config", "cipher", "key" in the
                     \* specifications of the parts; the line the shell
                     \* is at, "exited" or "killed" in the installer)
          results,   \* error of each operation started so far ("" = nil)
          exitCode,  \* -1 while running, else the process exit code
          last       \* the operation that just ran, its error and the
                     \* INFO line its ledger upsert logged

vars == <<fs, exe, pc, results, exitCode, last>>

-----------------------------------------------------------------------------
(* Bounds of the model *)

\* operations a manifest holds at most
MaxOps == 2

\* file contents (1: what the factory image holds, 2: what a patch ships)
\* and AES-GCM nonces
Contents == {1, 2}
Shipped == {2}
Nonces == {"n1", "n2"}

-----------------------------------------------------------------------------
(* Paths *)

Sep == "/"

\* index of the last separator of p, 0 if none
LastSep(p) ==
    LET idx == {i \in 1..Len(p) : p[i] = Sep}
    IN  IF idx = {} THEN 0 ELSE CHOOSE i \in idx : \A j \in idx : j <= i

\* filepath.Base on a clean path
Base(p) == SubSeq(p, LastSep(p) + 1, Len(p))

\* filepath.Dir on a clean path
Dir(p) ==
    IF LastSep(p) = 0 THEN <<".">>
    ELSE IF LastSep(p) = 1 THEN <<Sep>>
    ELSE SubSeq(p, 1, LastSep(p) - 1)

\* filepath.Join of two clean, non-empty elements
Join(a, b) == a \o <<Sep>> \o b

\* strings.ReplaceAll(p, "/", "_")
ReplaceAll(p) == [i \in 1..Len(p) |-> IF p[i] = Sep THEN "_" ELSE p[i]]

backupDir == <<"/", "k">>
tmpDir == <<"/", "t">>

D1 == <<"/", "a", "_", "b">>
D2 == <<"/", "a", "/", "b">>
Dirs == {D1, D2}

\* the directory the manifests of the model patch
PatchDirs == {D2}

FileNames == {<<"c">>}
Sources == {Join(tmpDir, n) : n \in FileNames}
DestFiles == {Join(d, n) : d \in Dirs, n \in FileNames}
PatchFiles == {Join(d, n) : d \in PatchDirs, n \in FileNames}

\* the ledger of a directory
DbPath(dir) == Join(dir, <<".", "db", ".json">>)

\* the pointer of a directory: "." + folder name + ".json"
FolderFile(dir) == Join(dir, <<".">> \o Base(dir) \o <<".json">>)

\* where forward remove backs a file up
BackupPath(p) == Join(backupDir, ReplaceAll(p))

\* a file of the directory that no manifest of the model names
Static(dir) == Join(dir, <<"s">>)

\* the defaults file of the device and the file modifyDefaults writes first
defaultsFile == <<"/", "v">>
tempFile == defaultsFile \o <<".tmp">>

AllPaths ==
    Sources \cup DestFiles \cup {BackupPath(p) : p \in DestFiles}
        \cup {Static(d) : d \in Dirs}
        \cup {DbPath(d) : d \in Dirs} \cup {FolderFile(d) : d \in Dirs}
        \cup {defaultsFile, tempFile}

-----------------------------------------------------------------------------
(* Files, digests and the cipher *)

NoFile == [t |-> "none"]
Data(c) == [t |-> "data", c |-> c]

\* a text file, held as strings.Split(text, "\n") gives it: a sequence of
\* lines, each a sequence of tokens
Text(lines) == [t |-> "text", lines |-> lines]

\* a faulty variant: every path is taken to hold a file
ExistsAlways(f, p) == TRUE

\* os.Stat finds a file at p
Exists(f, p) == f[p].t # "none"

\* SHA-256, taken to be collision free: the digest names the bytes
Digest(file) == [sha |-> file]

\* the empty string a function returns for the digest beside an error
EmptyHash == [empty |-> TRUE]

\* computeChecksum of the file at p
computeChecksum(f, p) == Digest(f[p])

\* the key extractKeyFromImage yields, and a key it does not
Key == "k1"
OtherKey == "k0"

\* AES-GCM seal: nonce || ciphertext
encryptFile(key, plain, nonce) ==
    [t |-> "enc", key |-> key, nonce |-> nonce, plain |-> plain]

\* AES-GCM open: fails on a wrong key
decryptFile(key, file) ==
    IF file.t = "enc" /\ file.key = key
    THEN [ok |-> TRUE, plain |-> file.plain]
    ELSE [ok |-> FALSE, plain |-> <<>>]

\* json.MarshalIndent of a ledger ([]IntegrityEntry) and of a pointer (FolderEntry)
MarshalEntries(entries) == [j |-> "array", v |-> entries]
MarshalFolder(folderData) == [j |-> "object", v |-> folderData]

-----------------------------------------------------------------------------
(* Faults: the one fallible step of an operation that the environment      *)
(* makes fail ("none": every step that can succeed does).  A step that     *)
(* fails for a reason the state gives (a missing source, a blob that does  *)
(* not decrypt, a digest that differs) fails whatever the fault.  A fault   *)
(* stands for every failure with its effect: "db_key" for a failure of     *)
(* updateIntegrityDatabase or removeFromIntegrityDatabase before it loads  *)
(* the ledger, "db_write" for one between the load and the write,          *)
(* "db_sum" for one after the write, and likewise "ptr_key" and            *)
(* "ptr_write" for updateFolderFile.  A write that fails leaves the file   *)
(* as it was.                                                              *)

Ret(f, err, hash) == [fs |-> f, err |-> err, hash |-> hash]

\* fmt.Errorf("msg: %w", err)
Wrap(msg, err) == msg \o ": " \o err

\* the same with the INFO line the ledger upsert logged ("" if none)
RetLog(f, err, hash, log) == [fs |-> f, err |-> err, hash |-> hash, log |-> log]

-----------------------------------------------------------------------------
(* Integrity ledger *)

\* a faulty variant: a ledger that does not open is taken to be empty
LoadLedgerOrEmpty(f, dbPath) ==
    IF Exists(f, dbPath) /\ decryptFile(Key, f[dbPath]).ok
          /\ decryptFile(Key, f[dbPath]).plain.j = "array"
    THEN [err |-> "", entries |-> decryptFile(Key, f[dbPath]).plain.v]
    ELSE [err |-> "", entries |-> <<>>]

\* load the ledger at dbPath: a missing file is an empty ledger
LoadLedger(f, dbPath) ==
    IF Exists(f, dbPath)
    THEN LET dec == decryptFile(Key, f[dbPath])
         IN  IF ~dec.ok
             THEN [err |-> "failed to decrypt db file", entries |-> <<>>]
             ELSE IF dec.plain.j # "array"
             THEN [err |-> "failed to unmarshal db data", entries |-> <<>>]
             ELSE [err |-> "", entries |-> dec.plain.v]
    ELSE [err |-> "", entries |-> <<>>]

\* marshal, seal, write the ledger and return the digest of the bytes written
writeUpdate(f, dbPath, entries, fault, nonce) ==
    LET written ==
            [f EXCEPT ![dbPath] = encryptFile(Key, MarshalEntries(entries), nonce)]
    IN  IF fault = "db_write"
        THEN Ret(f, "failed to write encrypted db", EmptyHash)
        ELSE IF fault = "db_sum"
        THEN Ret(written, "failed to compute db hash", EmptyHash)
        ELSE Ret(written, "", computeChecksum(written, dbPath))

\* positions of the entries of a ledger recorded for filePath
Matching(entries, filePath) == {i \in 1..Len(entries) : entries[i].path = filePath}

First(idx) == CHOOSE i \in idx : \A j \in idx : i <= j

\* a faulty variant: the new entry is appended beside the entry of the path
UpsertedBeside(entries, filePath, hash) ==
    Append(entries, [path |-> filePath, hash |-> hash])

\* a faulty variant: an entry whose hash differs is dropped and the new one
\* appended
UpsertedAtEnd(entries, filePath, hash) ==
    Append(SelectSeq(entries, LAMBDA e : e.path # filePath),
           [path |-> filePath, hash |-> hash])

\* the entries as the upsert loop leaves them when no entry matches path and hash
Upserted(entries, filePath, hash) ==
    IF Matching(entries, filePath) = {}
    THEN Append(entries, [path |-> filePath, hash |-> hash])
    ELSE [entries EXCEPT ![First(Matching(entries, filePath))].hash = hash]

\* a faulty variant: the ledger is sealed and written again even when it
\* holds the entry already
updateIntegrityDatabaseRewrites(f, filePath, hash, fault, nonce) ==
    LET dbPath == DbPath(Dir(filePath))
        ld == LoadLedger(f, dbPath)
        hit == Matching(ld.entries, filePath)
        w == writeUpdate(f, dbPath, Upserted(ld.entries, filePath, hash), fault, nonce)
    IN  IF fault = "db_key"
        THEN RetLog(f, "failed to extract key", EmptyHash, "")
        ELSE IF ld.err # ""
        THEN RetLog(f, ld.err, EmptyHash, "")
        ELSE RetLog(w.fs, w.err, w.hash,
                    IF hit = {} THEN "added"
                    ELSE IF ld.entries[First(hit)].hash = hash THEN "already exists"
                    ELSE "updated")

updateIntegrityDatabase(f, filePath, hash, fault, nonce) ==
    LET dbPath == DbPath(Dir(filePath))
        ld == LoadLedger(f, dbPath)
        hit == Matching(ld.entries, filePath)
        w == writeUpdate(f, dbPath, Upserted(ld.entries, filePath, hash), fault, nonce)
    IN  IF fault = "db_key"
        THEN RetLog(f, "failed to extract key", EmptyHash, "")
        ELSE IF ld.err # ""
        THEN RetLog(f, ld.err, EmptyHash, "")
        ELSE IF hit # {} /\ ld.entries[First(hit)].hash = hash
        THEN IF fault = "db_sum"
             THEN RetLog(f, "failed to compute db hash", EmptyHash, "already exists")
             ELSE RetLog(f, "", computeChecksum(f, dbPath), "already exists")
        ELSE RetLog(w.fs, w.err, w.hash, IF hit # {} THEN "updated" ELSE "added")

\* the entries whose path differs from filePath, in order
Without(entries, filePath) == SelectSeq(entries, LAMBDA e : e.path # filePath)

\* the WARNING line of the ledger remove: no entry matched in a ledger that
\* holds entries
NotFound(entries, filePath) ==
    IF Matching(entries, filePath) = {} /\ Len(entries) > 0 THEN "not found" ELSE ""

\* a faulty variant: the ledger is left alone when no entry matches
removeFromIntegrityDatabaseIfFound(f, filePath, fault, nonce) ==
    LET dbPath == DbPath(Dir(filePath))
        ld == LoadLedger(f, dbPath)
        w == writeUpdate(f, dbPath, Without(ld.entries, filePath), fault, nonce)
    IN  IF fault = "db_key"
        THEN RetLog(f, "failed to extract key", EmptyHash, "")
        ELSE IF ld.err # ""
        THEN RetLog(f, ld.err, EmptyHash, "")
        ELSE IF Matching(ld.entries, filePath) = {}
        THEN RetLog(f, "", computeChecksum(f, dbPath), NotFound(ld.entries, filePath))
        ELSE RetLog(w.fs, w.err, w.hash, NotFound(ld.entries, filePath))

removeFromIntegrityDatabase(f, filePath, fault, nonce) ==
    LET dbPath == DbPath(Dir(filePath))
        ld == LoadLedger(f, dbPath)
        w == writeUpdate(f, dbPath, Without(ld.entries, filePath), fault, nonce)
    IN  IF fault = "db_key"
        THEN RetLog(f, "failed to extract key", EmptyHash, "")
        ELSE IF ld.err # ""
        THEN RetLog(f, ld.err, EmptyHash, "")
        ELSE RetLog(w.fs, w.err, w.hash, NotFound(ld.entries, filePath))

-----------------------------------------------------------------------------
(* Folder digest pointer *)

\* a faulty variant: the pointer is sealed again but keeps the hash it held
updateFolderFileKeepsHash(f, dir, dbHash, fault, nonce) ==
    LET folderFile == FolderFile(dir)
        dec == decryptFile(Key, f[folderFile])
        folderData ==
            IF Exists(f, folderFile) /\ dec.ok THEN dec.plain.v
            ELSE [path |-> DbPath(dir), hash |-> EmptyHash]
    IN  IF fault \in {"ptr_key", "ptr_write"} \/ (Exists(f, folderFile) /\ ~dec.ok)
        THEN Ret(f, "failed to update", EmptyHash)
        ELSE Ret([f EXCEPT ![folderFile] =
                      encryptFile(Key, MarshalFolder(folderData), nonce)],
                 "", EmptyHash)

updateFolderFile(f, dir, dbHash, fault, nonce) ==
    LET folderFile == FolderFile(dir)
        dbPath == DbPath(dir)
        dec == decryptFile(Key, f[folderFile])
        folderData ==
            IF Exists(f, folderFile) THEN dec.plain.v
            ELSE [path |-> dbPath, hash |-> EmptyHash]
        updated == MarshalFolder([folderData EXCEPT !.hash = dbHash])
    IN  IF fault = "ptr_key"
        THEN Ret(f, "failed to extract key", EmptyHash)
        ELSE IF Exists(f, folderFile) /\ ~dec.ok
        THEN Ret(f, "failed to decrypt folder file", EmptyHash)
        ELSE IF Exists(f, folderFile) /\ dec.plain.j # "object"
        THEN Ret(f, "failed to unmarshal folder data", EmptyHash)
        ELSE IF fault = "ptr_write"
        THEN Ret(f, "failed to write encrypted folder file", EmptyHash)
        ELSE Ret([f EXCEPT ![folderFile] = encryptFile(Key, updated, nonce)],
                 "", EmptyHash)

-----------------------------------------------------------------------------
(* Operations of a manifest *)

Hashes == {Digest(Data(c)) : c \in Contents}

Op(kind, path, source, checksum) ==
    [operation |-> kind, path |-> path, source |-> source, checksum |-> checksum]

NoOp == Op("none", <<>>, <<>>, EmptyHash)

\* what an operation function returns: the file system it leaves and its error
Out(f, err) == [fs |-> f, err |-> err, log |-> ""]
OutLog(f, err, log) == [fs |-> f, err |-> err, log |-> log]

copyFile(f, src, dst, fault) ==
    IF ~Exists(f, src) \/ fault = "copy_open"
    THEN Out(f, "open")
    ELSE IF fault = "copy_chmod"
    THEN Out([f EXCEPT ![dst] = f[src]], "chmod")
    ELSE Out([f EXCEPT ![dst] = f[src]], "")

\* a faulty variant: the file stays
RemovedNothing(f, p) == f

\* os.Remove
Removed(f, p) == [f EXCEPT ![p] = NoFile]

-----------------------------------------------------------------------------
(* Forward executor *)

\* a faulty variant: the digest of the copy is not compared with the checksum
\* of the manifest
addFileUnverified(f, op, fault, n1, n2) ==
    IF op.source = <<>> \/ op.path = <<>>
    THEN Out(f, "invalid add operation, missing source or path")
    ELSE
    LET destFile == Join(op.path, Base(op.source))
        cp == copyFile(f, op.source, destFile, fault)
        db == updateIntegrityDatabase(cp.fs, destFile,
                                      computeChecksum(cp.fs, destFile), fault, n1)
        pt == updateFolderFile(db.fs, op.path, db.hash, fault, n2)
    IN  IF fault = "mkdir"
        THEN Out(f, "failed to create directory")
        ELSE IF cp.err # ""
        THEN Out(cp.fs, "failed to copy file")
        ELSE IF fault = "sum"
        THEN Out(cp.fs, "failed to compute checksum")
        ELSE IF db.err # ""
        THEN OutLog(db.fs, Wrap("failed to update integrity database", db.err), db.log)
        ELSE IF pt.err # ""
        THEN OutLog(pt.fs, Wrap("failed to update folder file", pt.err), db.log)
        ELSE IF fault = "rm"
        THEN OutLog(pt.fs, "failed to remove source file", db.log)
        ELSE OutLog(Removed(pt.fs, op.source), "", db.log)

\* a faulty variant: a staged source that cannot be deleted is a warning only
addFileKeepsSource(f, op, fault, n1, n2) ==
    IF op.source = <<>> \/ op.path = <<>>
    THEN Out(f, "invalid add operation, missing source or path")
    ELSE
    LET destFile == Join(op.path, Base(op.source))
        cp == copyFile(f, op.source, destFile, fault)
        copiedChecksum == computeChecksum(cp.fs, destFile)
        db == updateIntegrityDatabase(cp.fs, destFile, copiedChecksum, fault, n1)
        pt == updateFolderFile(db.fs, op.path, db.hash, fault, n2)
    IN  IF fault = "mkdir"
        THEN Out(f, "failed to create directory")
        ELSE IF cp.err # ""
        THEN Out(cp.fs, "failed to copy file")
        ELSE IF fault = "sum"
        THEN Out(cp.fs, "failed to compute checksum")
        ELSE IF copiedChecksum # op.checksum
        THEN Out(cp.fs, "checksum mismatch")
        ELSE IF db.err # ""
        THEN OutLog(db.fs, Wrap("failed to update integrity database", db.err), db.log)
        ELSE IF pt.err # ""
        THEN OutLog(pt.fs, Wrap("failed to update folder file", pt.err), db.log)
        ELSE IF fault = "rm"
        THEN OutLog(pt.fs, "", db.log)
        ELSE OutLog(Removed(pt.fs, op.source), "", db.log)

addFile(f, op, fault, n1, n2) ==
    IF op.source = <<>> \/ op.path = <<>>
    THEN Out(f, "invalid add operation, missing source or path")
    ELSE
    LET filename == Base(op.source)
        destFile == Join(op.path, filename)
        cp == copyFile(f, op.source, destFile, fault)
        copiedChecksum == computeChecksum(cp.fs, destFile)
        db == updateIntegrityDatabase(cp.fs, destFile, copiedChecksum, fault, n1)
        pt == updateFolderFile(db.fs, op.path, db.hash, fault, n2)
    IN  IF fault = "mkdir"
        THEN Out(f, "failed to create directory")
        ELSE IF cp.err # ""
        THEN Out(cp.fs, "failed to copy file")
        ELSE IF fault = "sum"
        THEN Out(cp.fs, "failed to compute checksum")
        ELSE IF copiedChecksum # op.checksum
        THEN Out(cp.fs, "checksum mismatch")
        ELSE IF db.err # ""
        THEN OutLog(db.fs, Wrap("failed to update integrity database", db.err), db.log)
        ELSE IF pt.err # ""
        THEN OutLog(pt.fs, Wrap("failed to update folder file", pt.err), db.log)
        ELSE IF fault = "rm"
        THEN OutLog(pt.fs, "failed to remove source file", db.log)
        ELSE OutLog(Removed(pt.fs, op.source), "", db.log)

removeFile(f, op, fault, n1, n2) ==
    IF op.path = <<>>
    THEN Out(f, "invalid remove operation, missing path")
    ELSE
    LET backupPath == Join(backupDir, ReplaceAll(op.path))
        cp == copyFile(f, op.path, backupPath, fault)
        backupChecksum == computeChecksum(cp.fs, backupPath)
        originalChecksum == computeChecksum(cp.fs, op.path)
        \* the file system after steps 1 and 2 when they do not return
        backed == IF Exists(f, op.path) THEN cp.fs ELSE f
        db == removeFromIntegrityDatabase(backed, op.path, fault, n1)
        pt == updateFolderFile(db.fs, Dir(op.path), db.hash, fault, n2)
        \* the second os.Stat decides whether the ledger is touched
        touch == Exists(backed, op.path) /\ fault # "stat2"
        synced == IF touch THEN pt.fs ELSE backed
    IN  IF fault = "mkdir"
        THEN Out(f, "failed to create backup directory")
        ELSE IF fault = "stat"
        THEN Out(f, "failed to check file existence")
        ELSE IF Exists(f, op.path) /\ cp.err # ""
        THEN Out(cp.fs, "failed to copy file to backup")
        ELSE IF Exists(f, op.path) /\ fault = "sum"
        THEN Out(cp.fs, "failed to compute backup checksum")
        ELSE IF Exists(f, op.path) /\ backupChecksum # originalChecksum
        THEN Out(cp.fs, "backup checksum mismatch")
        ELSE IF touch /\ db.err # ""
        THEN Out(db.fs, Wrap("failed to update integrity database", db.err))
        ELSE IF touch /\ pt.err # ""
        THEN Out(pt.fs, Wrap("failed to update folder file", pt.err))
        ELSE IF Exists(synced, op.path) /\ fault = "rm"
        THEN Out(synced, "failed to remove file")
        ELSE Out(Removed(synced, op.path), "")

\* sh -c command: what the command does to the files is not modelled
executeCommand(f, command, fault) ==
    IF command = ""
    THEN Out(f, "invalid command operation, missing command")
    ELSE IF fault = "exec"
    THEN Out(f, "command execution failed")
    ELSE Out(f, "")

\* sh -c script: what the script does to the files is not modelled
executeScript(f, script, fault) ==
    IF script = ""
    THEN Out(f, "invalid script operation, missing script content")
    ELSE IF fault = "exec"
    THEN Out(f, "script execution failed")
    ELSE Out(f, "")

\* strings.TrimSpace: " " is the white space of the model
TrimSpace(s) ==
    LET ns == {i \in 1..Len(s) : s[i] # " "}
    IN  IF ns = {} THEN <<>>
        ELSE SubSeq(s, CHOOSE i \in ns : \A j \in ns : i <= j,
                       CHOOSE i \in ns : \A j \in ns : j <= i)

\* strings.SplitN(line, "=", 2): one piece when the line has no "="
SplitN(line) ==
    LET eq == {i \in 1..Len(line) : line[i] = "="}
        at == CHOOSE i \in eq : \A j \in eq : i <= j
    IN  IF eq = {} THEN <<line>>
        ELSE <<SubSeq(line, 1, at - 1), SubSeq(line, at + 1, Len(line))>>

\* the keys of the sections of entries
EntryKeys(entries) == UNION {DOMAIN entries[s] : s \in DOMAIN entries}

\* the maps the flattening loop can build: the sections are ranged over in
\* any order, a later section overwrites the value of an earlier one
FlatEntries(entries) ==
    {fl \in [EntryKeys(entries) ->
                UNION {{entries[s][k] : k \in DOMAIN entries[s]} : s \in DOMAIN entries}] :
        \A k \in DOMAIN fl :
            \E s \in DOMAIN entries : k \in DOMAIN entries[s] /\ entries[s][k] = fl[k]}

\* the orders in which a range over the flattened map can give its keys
KeyOrders(keys) ==
    {o \in [1..Cardinality(keys) -> keys] :
        \A i, j \in DOMAIN o : o[i] = o[j] => i = j}

\* the key of a line that the flattened map holds, <<>> if there is none
LineKey(line, flat) ==
    IF Len(SplitN(line)) = 2 /\ TrimSpace(SplitN(line)[1]) \in DOMAIN flat
    THEN TrimSpace(SplitN(line)[1]) ELSE <<>>

\* the lines modifyDefaults writes: known keys rewritten in place, the others
\* appended in the order the range over the map gives them
ModifiedLines(lines, flat, order) ==
    LET modifiedEntries == {LineKey(lines[i], flat) : i \in 1..Len(lines)}
        new == SelectSeq(order, LAMBDA k : k \notin modifiedEntries)
    IN  [i \in 1..Len(lines) |->
            IF LineKey(lines[i], flat) # <<>>
            THEN LineKey(lines[i], flat) \o <<"=">> \o flat[LineKey(lines[i], flat)]
            ELSE lines[i]]
        \o [i \in 1..Len(new) |-> new[i] \o <<"=">> \o flat[new[i]]]

\* what a failed os.WriteFile leaves of the lines it was given: the file is
\* truncated when it is opened, and holds the first cut lines when the write
\* stops
Truncated(lines, cut) ==
    IF cut = 0 THEN << <<>> >>
    ELSE IF cut < Len(lines) THEN SubSeq(lines, 1, cut) ELSE lines

\* os.WriteFile(p, lines joined by "\n"): fault "..._write" fails to open the
\* file, fault "..._cut" fails after cut lines
WriteFile(f, p, lines, fault, cut) ==
    IF fault \in {"cfg_write", "cmp_write"} THEN f
    ELSE IF fault \in {"cfg_cut", "cmp_cut"}
    THEN [f EXCEPT ![p] = Text(Truncated(lines, cut))]
    ELSE [f EXCEPT ![p] = Text(lines)]

modifyDefaults(f, entries, fault, flat, order, cut) ==
    LET modifiedLines == ModifiedLines(f[defaultsFile].lines, flat, order)
        temp == WriteFile(f, tempFile, modifiedLines, fault, cut)
    IN  IF DOMAIN entries = {}
        THEN Out(f, "invalid modify_defaults operation, missing entries")
        ELSE IF ~Exists(f, defaultsFile) \/ fault = "cfg_read"
        THEN Out(f, "failed to read defaults file")
        ELSE IF fault \in {"cfg_write", "cfg_cut"}
        THEN Out(temp, "failed to write temp defaults file")
        ELSE IF fault = "cfg_rename"
        THEN Out(temp, "failed to replace defaults file")
        ELSE Out([temp EXCEPT ![defaultsFile] = temp[tempFile], ![tempFile] = NoFile], "")

-----------------------------------------------------------------------------
(* The defaults comparison tool (generate_defaultvalue_restore): --input   *)
(* writes the comparison of a manifest with the defaults file, --restore   *)
(* rewrites the defaults file from a comparison.                           *)
(* A section name, a key and a value are sequences of tokens, as the       *)
(* lines are; <<>> is the empty string.                                    *)

\* the file the tool writes the comparison to
defaultOutputFile == Join(tmpDir, <<"cmp">>)

\* the lines a bufio.Scanner gives: the empty piece after a final "\n" is
\* no line
ScanLines(lines) ==
    IF lines # <<>> /\ lines[Len(lines)] = <<>>
    THEN SubSeq(lines, 1, Len(lines) - 1) ELSE lines

\* strings.Join(lines, "\n") + "\n", as strings.Split gives it back
JoinNewline(lines) ==
    (IF lines = <<>> THEN << <<>> >> ELSE lines) \o << <<>> >>

\* a blank line or a comment: it resets the current section
IsReset(line) ==
    LET l == TrimSpace(line) IN l = <<>> \/ l[1] \in {"#", ";"}

\* a [Name] line
IsHeader(line) ==
    LET l == TrimSpace(line)
    IN  ~IsReset(line) /\ l[1] = "[" /\ l[Len(l)] = "]" /\ Len(l) >= 2

\* the name of a header line
HeaderName(line) ==
    LET l == TrimSpace(line) IN TrimSpace(SubSeq(l, 2, Len(l) - 1))

\* a line the loops take for a key: it has a "=" and is no comment or header
IsKeyLine(line) ==
    ~IsReset(line) /\ ~IsHeader(line) /\ \E i \in 1..Len(line) : line[i] = "="

\* key and value of a key line
KeyOf(line) == TrimSpace(SplitN(TrimSpace(line))[1])
ValueOf(line) == TrimSpace(SplitN(TrimSpace(line))[2])

\* currentSection when the loop reaches line i
currentSection(lines, i) ==
    LET marks == {j \in 1..(i - 1) : IsReset(lines[j]) \/ IsHeader(lines[j])}
        at == CHOOSE j \in marks : \A k \in marks : k <= j
    IN  IF marks = {} \/ IsReset(lines[at]) THEN <<>> ELSE HeaderName(lines[at])

\* parseDefaultValues of the scanned lines: section -> key -> value, a later
\* line of a key overwrites an earlier one; a header makes its section
parseDefaultValues(lines) ==
    LET keyLines(s) ==
            {i \in 1..Len(lines) : IsKeyLine(lines[i]) /\ currentSection(lines, i) = s}
        sectionNames ==
            {HeaderName(lines[i]) : i \in {j \in 1..Len(lines) : IsHeader(lines[j])}}
                \cup {currentSection(lines, i) :
                        i \in {j \in 1..Len(lines) : IsKeyLine(lines[j])}}
        lastLine(s, k) ==
            CHOOSE i \in keyLines(s) :
                /\ KeyOf(lines[i]) = k
                /\ \A j \in keyLines(s) : KeyOf(lines[j]) = k => j <= i
    IN  [s \in sectionNames |->
            [k \in {KeyOf(lines[i]) : i \in keyLines(s)} |->
                ValueOf(lines[lastLine(s, k)])]]

\* the section of the defaults file and of the comparison a manifest section
\* stands for
iniSectionName(sectionName) ==
    IF sectionName = <<"global">> THEN <<>> ELSE sectionName
outputSectionName(sectionName) ==
    IF sectionName = <<"global">> THEN <<"unscoped">> ELSE sectionName

OutputEntry(currentValue, newValue, exists) ==
    [current_value |-> currentValue, new_value |-> newValue, exists |-> exists]

\* a faulty variant: the key is looked up in every section
EntryForAnySection(defaultValues, sectionName, key, newValue) ==
    LET found == {s \in DOMAIN defaultValues : key \in DOMAIN defaultValues[s]}
    IN  OutputEntry(IF found # {} THEN defaultValues[CHOOSE s \in found : TRUE][key] ELSE <<>>,
                    newValue, found # {})

\* the entry main records for a key of a manifest section
EntryFor(defaultValues, sectionName, key, newValue) ==
    LET ini == iniSectionName(sectionName)
        exists == ini \in DOMAIN defaultValues /\ key \in DOMAIN defaultValues[ini]
    IN  OutputEntry(IF exists THEN defaultValues[ini][key] ELSE <<>>, newValue, exists)

\* the comparisons main's loop over the entries can build: where two manifest
\* sections stand for one section of the comparison, the one ranged over
\* later overwrites the keys of the other
Outputs(defaultValues, entries) ==
    LET names == {outputSectionName(s) : s \in DOMAIN entries}
        from(o) == {s \in DOMAIN entries : outputSectionName(s) = o}
        keys(o) == UNION {DOMAIN entries[s] : s \in from(o)}
        picks == [names -> DOMAIN entries]
        ok(pick) ==
            \A o \in names : pick[o] \in from(o)
        src(pick, o, k) ==
            IF k \in DOMAIN entries[pick[o]] THEN pick[o]
            ELSE CHOOSE s \in from(o) : k \in DOMAIN entries[s]
    IN  {[o \in names |->
            [k \in keys(o) |->
                EntryFor(defaultValues, src(pick, o, k), k, entries[src(pick, o, k)][k])]] :
         pick \in {p \in picks : ok(p)}}

\* json.MarshalIndent of the comparison, and what json.Unmarshal reads back
MarshalOutput(output) == [t |-> "json", v |-> output]

\* main with --input: the entries of the first modify_defaults operation of
\* the manifest are compared with the defaults file
generate(f, manifest, output, fault) ==
    IF fault = "man_read" THEN OutLog(f, "Error reading input file", "exit 1")
    ELSE IF manifest = <<>>
    THEN OutLog(f, "", "No 'modify_defaults' operation found in the manifest")
    ELSE IF ~Exists(f, defaultsFile) \/ fault = "cfg_read"
    THEN OutLog(f, "Error parsing .defaultvalues file", "exit 1")
    ELSE IF fault = "cmp_write"
    THEN OutLog(f, "Error writing output file", "exit 1")
    ELSE OutLog([f EXCEPT ![defaultOutputFile] = MarshalOutput(output)], "",
                "Comparison JSON file created")

\* the keys updateDefaultValues is to remove: section of the file -> keys
keysToRemove(output) ==
    LET iniSection(section) == IF section = <<"unscoped">> THEN <<>> ELSE section
        gone(section) ==
            {k \in DOMAIN output[section] :
                ~output[section][k].exists /\ output[section][k].current_value = <<>>}
    IN  [s \in {iniSection(section) : section \in {o \in DOMAIN output : gone(o) # {}}} |->
            UNION {gone(section) : section \in {o \in DOMAIN output : iniSection(o) = s}}]

\* line i is a key line updateDefaultValues is to remove
ToRemove(lines, output, i) ==
    /\ IsKeyLine(lines[i])
    /\ currentSection(lines, i) \in DOMAIN keysToRemove(output)
    /\ KeyOf(lines[i]) \in keysToRemove(output)[currentSection(lines, i)]

\* the loop of updateDefaultValues appends nothing for line i: a key line to
\* remove, or a line that is no blank, comment, header or key line
Dropped(lines, output, i) ==
    \/ ToRemove(lines, output, i)
    \/ ~IsReset(lines[i]) /\ ~IsHeader(lines[i]) /\ ~IsKeyLine(lines[i])

\* a faulty variant: no line is written anew
RewrittenNever(lines, output, i) == FALSE

\* the loop of updateDefaultValues writes line i anew
Rewritten(lines, output, i) ==
    LET section == IF currentSection(lines, i) = <<>> THEN <<"unscoped">>
                   ELSE currentSection(lines, i)
    IN  /\ IsKeyLine(lines[i])
        /\ ~Dropped(lines, output, i)
        /\ section \in DOMAIN output
        /\ KeyOf(lines[i]) \in DOMAIN output[section]
        /\ output[section][KeyOf(lines[i])].exists

\* fmt.Sprintf("%s = %s", key, value)
Sprintf(key, value) == key \o <<" ", "=", " ">> \o value

RECURSIVE RestoredFrom(_, _, _)
\* the lines the loop of updateDefaultValues collects from line i on
RestoredFrom(lines, output, i) ==
    IF i > Len(lines) THEN <<>>
    ELSE (IF Dropped(lines, output, i) THEN <<>>
          ELSE IF Rewritten(lines, output, i)
          THEN << Sprintf(KeyOf(lines[i]),
                          output[IF currentSection(lines, i) = <<>> THEN <<"unscoped">>
                                 ELSE currentSection(lines, i)][KeyOf(lines[i])].current_value) >>
          ELSE << lines[i] >>)
         \o RestoredFrom(lines, output, i + 1)

\* updateDefaultValues: the defaults file is written in place
updateDefaultValues(f, comparisonJSONPath, fault, cut) ==
    LET output == f[comparisonJSONPath].v
        lines == RestoredFrom(ScanLines(f[defaultsFile].lines), output, 1)
    IN  IF ~Exists(f, comparisonJSONPath) \/ fault = "cmp_read"
        THEN Out(f, "error reading comparison JSON file")
        ELSE IF f[comparisonJSONPath].t # "json"
        THEN Out(f, "error parsing comparison JSON")
        ELSE IF ~Exists(f, defaultsFile) \/ fault = "cfg_read"
        THEN Out(f, "error opening .defaultvalues file")
        ELSE Out(WriteFile(f, defaultsFile, JoinNewline(lines), fault, cut),
                 IF fault \in {"cfg_write", "cfg_cut"} THEN "write .defaultvalues" ELSE "")

\* main with --restore
restore(f, restorefileManifest, fault, cut) ==
    IF ~Exists(f, restorefileManifest)
    THEN OutLog(f, "does not exist. Run with --input first", "exit 1")
    ELSE LET r == updateDefaultValues(f, restorefileManifest, fault, cut)
         IN  OutLog(r.fs, IF r.err = "" THEN "" ELSE Wrap("Error updating .defaultvalues", r.err),
                    IF r.err = "" THEN "Updated /sda1/data/.defaultvalues" ELSE "exit 1")

-----------------------------------------------------------------------------
(* Rollback executor *)

\* a faulty variant: the ledger is given the checksum of the manifest
rbAddFileDeclared(f, op, fault, n1, n2) ==
    IF op.source = <<>> \/ op.path = <<>>
    THEN Out(f, "invalid add operation, missing source or path")
    ELSE
    LET destFile == op.path
        sourceFile == op.source
        destDir == Dir(destFile)
        cp == copyFile(f, sourceFile, destFile, fault)
        sourceChecksum == computeChecksum(cp.fs, sourceFile)
        destChecksum == computeChecksum(cp.fs, destFile)
        db == updateIntegrityDatabase(cp.fs, destFile, op.checksum, fault, n1)
        pt == updateFolderFile(db.fs, destDir, db.hash, fault, n2)
    IN  IF fault = "mkdir"
        THEN Out(f, "failed to create directory")
        ELSE IF cp.err # ""
        THEN Out(cp.fs, "failed to copy file")
        ELSE IF fault = "sum"
        THEN Out(cp.fs, "failed to compute checksum")
        ELSE IF sourceChecksum # destChecksum
        THEN Out(cp.fs, "checksum mismatch")
        ELSE IF db.err # ""
        THEN OutLog(db.fs, Wrap("failed to update integrity database", db.err), db.log)
        ELSE IF pt.err # ""
        THEN OutLog(pt.fs, Wrap("failed to update folder file", pt.err), db.log)
        ELSE IF fault = "rm"
        THEN OutLog(pt.fs, "failed to remove source file", db.log)
        ELSE OutLog(Removed(pt.fs, sourceFile), "", db.log)

\* a faulty variant: the digest of the copy is compared with the checksum of
\* the manifest, as the forward executor does
rbAddFileChecksDeclared(f, op, fault, n1, n2) ==
    IF op.source = <<>> \/ op.path = <<>>
    THEN Out(f, "invalid add operation, missing source or path")
    ELSE
    LET destFile == op.path
        sourceFile == op.source
        destDir == Dir(destFile)
        cp == copyFile(f, sourceFile, destFile, fault)
        destChecksum == computeChecksum(cp.fs, destFile)
        db == updateIntegrityDatabase(cp.fs, destFile, destChecksum, fault, n1)
        pt == updateFolderFile(db.fs, destDir, db.hash, fault, n2)
    IN  IF fault = "mkdir"
        THEN Out(f, "failed to create directory")
        ELSE IF cp.err # ""
        THEN Out(cp.fs, "failed to copy file")
        ELSE IF fault = "sum"
        THEN Out(cp.fs, "failed to compute checksum")
        ELSE IF op.checksum # destChecksum
        THEN Out(cp.fs, "checksum mismatch")
        ELSE IF db.err # ""
        THEN OutLog(db.fs, Wrap("failed to update integrity database", db.err), db.log)
        ELSE IF pt.err # ""
        THEN OutLog(pt.fs, Wrap("failed to update folder file", pt.err), db.log)
        ELSE IF fault = "rm"
        THEN OutLog(pt.fs, "failed to remove source file", db.log)
        ELSE OutLog(Removed(pt.fs, sourceFile), "", db.log)

rbAddFile(f, op, fault, n1, n2) ==
    IF op.source = <<>> \/ op.path = <<>>
    THEN Out(f, "invalid add operation, missing source or path")
    ELSE
    LET destFile == op.path
        sourceFile == op.source
        destDir == Dir(destFile)
        cp == copyFile(f, sourceFile, destFile, fault)
        sourceChecksum == computeChecksum(cp.fs, sourceFile)
        destChecksum == computeChecksum(cp.fs, destFile)
        db == updateIntegrityDatabase(cp.fs, destFile, destChecksum, fault, n1)
        pt == updateFolderFile(db.fs, destDir, db.hash, fault, n2)
    IN  IF fault = "mkdir"
        THEN Out(f, "failed to create directory")
        ELSE IF cp.err # ""
        THEN Out(cp.fs, "failed to copy file")
        ELSE IF fault = "sum"
        THEN Out(cp.fs, "failed to compute checksum")
        ELSE IF sourceChecksum # destChecksum
        THEN Out(cp.fs, "checksum mismatch")
        ELSE IF db.err # ""
        THEN OutLog(db.fs, Wrap("failed to update integrity database", db.err), db.log)
        ELSE IF pt.err # ""
        THEN OutLog(pt.fs, Wrap("failed to update folder file", pt.err), db.log)
        ELSE IF fault = "rm"
        THEN OutLog(pt.fs, "failed to remove source file", db.log)
        ELSE OutLog(Removed(pt.fs, sourceFile), "", db.log)

\* a faulty variant: a path that holds no file is skipped, ledger and all,
\* as the forward executor does
rbRemoveFileSkips(f, op, fault, n1, n2) ==
    IF op.path = <<>>
    THEN Out(f, "invalid remove operation, missing path")
    ELSE
    LET gone == IF Exists(f, op.path) /\ fault # "stat2"
                THEN Removed(f, op.path) ELSE f
        db == removeFromIntegrityDatabase(gone, op.path, fault, n1)
        pt == updateFolderFile(db.fs, Dir(op.path), db.hash, fault, n2)
    IN  IF fault = "stat"
        THEN Out(f, "failed to check file existence")
        ELSE IF ~Exists(f, op.path)
        THEN Out(f, "")
        ELSE IF fault = "sum"
        THEN Out(f, "failed to compute file checksum")
        ELSE IF fault = "rm"
        THEN Out(f, "failed to remove file")
        ELSE IF db.err # ""
        THEN Out(db.fs, Wrap("failed to update integrity database", db.err))
        ELSE IF db.hash # EmptyHash /\ pt.err # ""
        THEN Out(pt.fs, Wrap("failed to update folder file", pt.err))
        ELSE IF db.hash # EmptyHash
        THEN Out(pt.fs, "")
        ELSE Out(db.fs, "")

rbRemoveFile(f, op, fault, n1, n2) ==
    IF op.path = <<>>
    THEN Out(f, "invalid remove operation, missing path")
    ELSE
    LET \* step 2: the file is removed when the second os.Stat finds it
        gone == IF Exists(f, op.path) /\ fault # "stat2"
                THEN Removed(f, op.path) ELSE f
        db == removeFromIntegrityDatabase(gone, op.path, fault, n1)
        pt == updateFolderFile(db.fs, Dir(op.path), db.hash, fault, n2)
    IN  IF fault = "stat"
        THEN Out(f, "failed to check file existence")
        ELSE IF Exists(f, op.path) /\ fault = "sum"
        THEN Out(f, "failed to compute file checksum")
        ELSE IF Exists(f, op.path) /\ fault = "rm"
        THEN Out(f, "failed to remove file")
        ELSE IF db.err # ""
        THEN Out(db.fs, Wrap("failed to update integrity database", db.err))
        ELSE IF db.hash # EmptyHash /\ pt.err # ""
        THEN Out(pt.fs, Wrap("failed to update folder file", pt.err))
        ELSE IF db.hash # EmptyHash
        THEN Out(pt.fs, "")
        ELSE Out(db.fs, "")

-----------------------------------------------------------------------------
(* Manifest engine *)

\* a faulty variant: main goes on to the next operation whatever err is
mainAfterGoesOn(err) == [pc |-> "loop", exitCode |-> -1]

\* main, after an operation returned err: os.Exit(1) on an error, else go on
mainAfter(err) ==
    IF err # ""
    THEN [pc |-> "exited", exitCode |-> 1]
    ELSE [pc |-> "loop", exitCode |-> -1]

FwdAddOps ==
    {Op("add", d, s, h) : d \in PatchDirs, s \in Sources \cup {<<>>}, h \in Hashes}
FwdRemoveOps == {Op("remove", p, <<>>, EmptyHash) : p \in PatchFiles \cup {<<>>}}
RbAddOps == {Op("add", p, BackupPath(p), h) : p \in PatchFiles, h \in Hashes}
RbRemoveOps == {Op("remove", p, <<>>, EmptyHash) : p \in PatchFiles}
Texts == {"", "sh"}

\* the entries of the modify_defaults operations: section -> key -> value
NoEntries == [s \in {} |-> <<>>]
DefaultsEntries == {NoEntries, <<"global">> :> (<<"K">> :> <<"3">>)}
ConfigFaults == {"none", "cfg_read", "cfg_write", "cfg_rename"}

\* the defaults file of the factory image: "K = 1\n"
FactoryDefaults == Text(<< <<"K", " ", "=", " ", "1">>, <<>> >>)

AddFaults ==
    {"none", "mkdir", "copy_open", "copy_chmod", "sum", "db_key", "db_write",
     "db_sum", "ptr_key", "ptr_write", "rm"}
RemoveFaults == AddFaults \cup {"stat", "stat2"}
RbRemoveFaults == RemoveFaults \ {"mkdir", "copy_open", "copy_chmod"}

\* the nonces rand.Reader may give when the blob at p is sealed again: a nonce
\* is not used twice in a row for one file
FreshNonces(f, p) ==
    IF p \in DOMAIN f /\ f[p].t = "enc" THEN Nonces \ {f[p].nonce} ELSE Nonces

\* the state of the patched directory before the first run
DirKinds == {"fresh", "factory", "badledger", "badpointer"}

FactoryEntries(d) ==
    << [path |-> Join(d, <<"c">>), hash |-> Digest(Data(1))],
       [path |-> Static(d), hash |-> Digest(Data(1))] >>

FactoryLedger(d, key) == encryptFile(key, MarshalEntries(FactoryEntries(d)), "n1")

FactoryPointer(d, key, ledger) ==
    encryptFile(key, MarshalFolder([path |-> DbPath(d), hash |-> Digest(ledger)]), "n1")

InitFile(p, k) ==
    LET d == Dir(p)
        ledger == FactoryLedger(d, IF k = "badledger" THEN OtherKey ELSE Key)
    IN  IF k = "fresh" THEN NoFile
        ELSE IF p = DbPath(d) THEN ledger
        ELSE IF p = FolderFile(d)
        THEN FactoryPointer(d, IF k = "badpointer" THEN OtherKey ELSE Key, ledger)
        ELSE Data(1)

InitFs(kind) ==
    [p \in AllPaths |->
        IF Dir(p) \in PatchDirs THEN InitFile(p, kind)
        ELSE IF Dir(p) \in Dirs THEN InitFile(p, "factory")
        ELSE IF p = defaultsFile THEN FactoryDefaults
        ELSE NoFile]

NoLast == [op |-> NoOp, err |-> "", log |-> ""]

Init ==
    /\ fs \in {InitFs(kind) : kind \in DirKinds}
    /\ exe = "none"
    /\ pc = "idle"
    /\ results = <<>>
    /\ exitCode = -1
    /\ last = NoLast

\* the installer stages a file of the patch archive
Stage ==
    /\ pc = "idle"
    /\ \E s \in Sources, c \in Shipped : fs' = [fs EXCEPT ![s] = Data(c)]
    /\ UNCHANGED <<exe, pc, results, exitCode, last>>

\* main up to the loop: a usage error or a loadManifest failure exits 1
Start ==
    /\ pc = "idle"
    /\ exe' \in {"forward", "rollback"}
    /\ \E loaded \in BOOLEAN :
          IF loaded
          THEN pc' = "loop" /\ exitCode' = -1
          ELSE pc' = "exited" /\ exitCode' = 1
    /\ UNCHANGED <<fs, results, last>>

\* the switch of main's loop called the operation's function, which returned out
Ran(op, out) ==
    /\ fs' = out.fs
    /\ results' = Append(results, out.err)
    /\ last' = [op |-> op, err |-> out.err, log |-> out.log]
    /\ pc' = "ran"
    /\ UNCHANGED <<exe, exitCode>>

\* the manifest has another operation
InLoop(e) == pc = "loop" /\ exe = e /\ Len(results) < MaxOps

FwdAdd ==
    /\ InLoop("forward")
    /\ \E op \in FwdAddOps, fault \in AddFaults :
       \E n1 \in FreshNonces(fs, DbPath(op.path)),
          n2 \in FreshNonces(fs, FolderFile(op.path)) :
          Ran(op, addFile(fs, op, fault, n1, n2))

FwdRemove ==
    /\ InLoop("forward")
    /\ \E op \in FwdRemoveOps, fault \in RemoveFaults :
       \E n1 \in FreshNonces(fs, DbPath(Dir(op.path))),
          n2 \in FreshNonces(fs, FolderFile(Dir(op.path))) :
          Ran(op, removeFile(fs, op, fault, n1, n2))

FwdCommand ==
    /\ InLoop("forward")
    /\ \E text \in Texts, fault \in {"none", "exec"} :
          Ran(Op("command", <<>>, <<>>, EmptyHash), executeCommand(fs, text, fault))

FwdScript ==
    /\ InLoop("forward")
    /\ \E text \in Texts, fault \in {"none", "exec"} :
          Ran(Op("script", <<>>, <<>>, EmptyHash), executeScript(fs, text, fault))

FwdModifyDefaults ==
    /\ InLoop("forward")
    /\ \E entries \in DefaultsEntries, fault \in ConfigFaults :
       \E flat \in FlatEntries(entries) :
       \E order \in KeyOrders(DOMAIN flat) :
          Ran(Op("modify_defaults", <<>>, <<>>, EmptyHash),
              modifyDefaults(fs, entries, fault, flat, order, 0))

\* the default case of the switch: logged, err stays nil
FwdUnknown ==
    /\ InLoop("forward")
    /\ Ran(Op("unknown", <<>>, <<>>, EmptyHash), Out(fs, ""))

RbAdd ==
    /\ InLoop("rollback")
    /\ \E op \in RbAddOps, fault \in AddFaults :
       \E n1 \in FreshNonces(fs, DbPath(Dir(op.path))),
          n2 \in FreshNonces(fs, FolderFile(Dir(op.path))) :
          Ran(op, rbAddFile(fs, op, fault, n1, n2))

RbRemove ==
    /\ InLoop("rollback")
    /\ \E op \in RbRemoveOps, fault \in RbRemoveFaults :
       \E n1 \in FreshNonces(fs, DbPath(Dir(op.path))),
          n2 \in FreshNonces(fs, FolderFile(Dir(op.path))) :
          Ran(op, rbRemoveFile(fs, op, fault, n1, n2))

RbCommand ==
    /\ InLoop("rollback")
    /\ \E text \in Texts, fault \in {"none", "exec"} :
          Ran(Op("command", <<>>, <<>>, EmptyHash), executeCommand(fs, text, fault))

RbScript ==
    /\ InLoop("rollback")
    /\ \E text \in Texts, fault \in {"none", "exec"} :
          Ran(Op("script", <<>>, <<>>, EmptyHash), executeScript(fs, text, fault))

\* a faulty variant: the default case of the switch sets err
RbUnknownFails ==
    /\ InLoop("rollback")
    /\ \E kind \in {"unknown", "modify_defaults"} :
          Ran(Op(kind, <<>>, <<>>, EmptyHash), Out(fs, "unknown operation"))

\* the default case of the switch, modify_defaults included
RbUnknown ==
    /\ InLoop("rollback")
    /\ \E kind \in {"unknown", "modify_defaults"} :
          Ran(Op(kind, <<>>, <<>>, EmptyHash), Out(fs, ""))

\* main's check of err after the switch
Check ==
    /\ pc = "ran"
    /\ pc' = mainAfter(last.err).pc
    /\ exitCode' = mainAfter(last.err).exitCode
    /\ last' = IF mainAfter(last.err).pc = "loop" THEN NoLast ELSE last
    /\ UNCHANGED <<fs, exe, results>>

\* the manifest has no further operation: main returns, exit code 0
Finish ==
    /\ pc = "loop"
    /\ pc' = "exited"
    /\ exitCode' = 0
    /\ UNCHANGED <<fs, exe, results, last>>

\* the process is gone; the installer may start another one
Restart ==
    /\ pc = "exited"
    /\ pc' = "idle"
    /\ exe' = "none"
    /\ results' = <<>>
    /\ exitCode' = -1
    /\ last' = NoLast
    /\ UNCHANGED fs

-----------------------------------------------------------------------------
(* The ledger primitives on their own: upserts and removes of any path of  *)
(* the patched directory, in any order, on each of its initial states.     *)

LedgerNames == {<<"c">>, <<"s">>, <<"e">>}
LedgerPaths == {Join(d, n) : d \in PatchDirs, n \in LedgerNames}
LedgerFaults == {"none", "db_key", "db_write", "db_sum"}

InitLedger ==
    /\ fs \in {InitFs(kind) : kind \in DirKinds}
    /\ exe = "none"
    /\ pc = "ledger"
    /\ results = <<>>
    /\ exitCode = -1
    /\ last = NoLast

Called(op, r) ==
    /\ fs' = r.fs
    /\ last' = [op |-> op, err |-> r.err, log |-> r.log]
    /\ UNCHANGED <<exe, pc, results, exitCode>>

Upsert ==
    /\ pc = "ledger"
    /\ \E p \in LedgerPaths, h \in Hashes, fault \in LedgerFaults :
       \E n \in FreshNonces(fs, DbPath(Dir(p))) :
          Called(Op("upsert", p, <<>>, h), updateIntegrityDatabase(fs, p, h, fault, n))

RemoveEntry ==
    /\ pc = "ledger"
    /\ \E p \in LedgerPaths, fault \in LedgerFaults :
       \E n \in FreshNonces(fs, DbPath(Dir(p))) :
          Called(Op("remove entry", p, <<>>, EmptyHash),
                 removeFromIntegrityDatabase(fs, p, fault, n))

NextLedger == Upsert \/ RemoveEntry

SpecLedger == InitLedger /\ [][NextLedger]_vars

-----------------------------------------------------------------------------
(* The defaults file under the forward executor's modify_defaults and the  *)
(* comparison tool, run in any order on any small defaults file.           *)

\* lines of the defaults files the device starts with, and runs of a program
MaxLines == 2
MaxRuns == 3

\* "K = 1", "K=2", "[S]", "", "#", "x"
CfgLines ==
    { <<"K", " ", "=", " ", "1">>, <<"K", "=", "2">>, <<"[", "S", "]">>, <<>>, <<"#">>,
      <<"x">> }

CfgFiles == UNION {[1..n -> CfgLines] : n \in 1..MaxLines}

CfgPaths == {defaultsFile, tempFile, defaultOutputFile}

\* the entries of a modify_defaults operation
CfgEntries ==
    { <<"global">> :> (<<"K">> :> <<"3">>),
      <<"S">> :> (<<"K">> :> <<"3">>),
      <<"global">> :> ((<<"K">> :> <<"3">>) @@ (<<"J">> :> <<"3">>)),
      (<<"global">> :> (<<"K">> :> <<"3">>)) @@ (<<"S">> :> (<<"K">> :> <<"4">>)) }

\* the entries of the modify_defaults operations of a manifest, in order
Manifests ==
    UNION {[1..n -> CfgEntries] : n \in 0..1}
        \cup { << <<"global">> :> (<<"K">> :> <<"3">>), <<"S">> :> (<<"K">> :> <<"3">>) >> }

ModifyFaults == {"none", "cfg_read", "cfg_write", "cfg_cut", "cfg_rename"}
GenerateFaults == {"none", "man_read", "cfg_read", "cmp_write"}
RestoreFaults == {"none", "cmp_read", "cfg_read", "cfg_write", "cfg_cut"}

\* where a write that fails stops: before the first line or after it
Cuts(fault) == IF fault = "cfg_cut" THEN {0, 1} ELSE {0}

InitConfig ==
    /\ fs \in {[p \in CfgPaths |-> IF p = defaultsFile THEN Text(lines) ELSE NoFile] :
                lines \in CfgFiles}
    /\ exe = "none"
    /\ pc = "config"
    /\ results = <<>>
    /\ exitCode = -1
    /\ last = NoLast

\* a program ran on the defaults file and exited
RanConfig(e, op, out) ==
    /\ fs' = out.fs
    /\ exe' = e
    /\ results' = Append(results, IF out.err = "" THEN "" ELSE "exit status 1")
    /\ exitCode' = IF out.err = "" THEN 0 ELSE 1
    /\ last' = [op |-> Op(op, <<>>, <<>>, EmptyHash), err |-> out.err, log |-> out.log]
    /\ UNCHANGED pc

CanRun == pc = "config" /\ Len(results) < MaxRuns

\* the forward executor ran a manifest of one modify_defaults operation
CfgModify ==
    /\ CanRun
    /\ \E entries \in CfgEntries \cup {NoEntries}, fault \in ModifyFaults :
       \E flat \in FlatEntries(entries) :
       \E order \in KeyOrders(DOMAIN flat) :
       \E cut \in Cuts(fault) :
          RanConfig("forward", "modify_defaults",
                    modifyDefaults(fs, entries, fault, flat, order, cut))

\* the tool ran with --input
CfgGenerate ==
    /\ CanRun
    /\ \E manifest \in Manifests, fault \in GenerateFaults :
       \E output \in IF manifest = <<>> THEN {NoEntries}
                      ELSE Outputs(parseDefaultValues(ScanLines(fs[defaultsFile].lines)),
                                   manifest[1]) :
          RanConfig("tool", "generate",
                    generate(fs, manifest, output, fault))

\* the tool ran with --restore
CfgRestore ==
    /\ CanRun
    /\ \E fault \in RestoreFaults :
       \E cut \in Cuts(fault) :
          RanConfig("tool", "restore",
                    restore(fs, defaultOutputFile, fault, cut))

NextConfig == CfgModify \/ CfgGenerate \/ CfgRestore

SpecConfig == InitConfig /\ [][NextConfig]_vars

-----------------------------------------------------------------------------
(* The cipher on bytes: encryptFile and decryptFile of the executors with  *)
(* the blob as the sequence of its bytes.  AES-GCM is taken to be ideal: a *)
(* byte of the ciphertext names the key, the nonce, the place and the byte *)
(* it hides, the tag names the key, the nonce and the ciphertext; the tag  *)
(* is one byte of the model.  The blob records of the executors above      *)
(* stand for the byte sequences encryptFile gives here.                    *)

\* gcm.NonceSize()
NonceSize == 12

\* bytes a plaintext of the model holds at most
MaxPlain == 2

\* keys: AES keys of 32 and of 16 bytes, and a key aes.NewCipher rejects
CipherKeys ==
    { [id |-> "k1", size |-> 32], [id |-> "k0", size |-> 32], [id |-> "k2", size |-> 16],
      [id |-> "k3", size |-> 31] }

Plaintexts == UNION {[1..n -> {"a", "b"}] : n \in 0..MaxPlain}

\* the nonces rand.Reader gives
CipherNonces == {[i \in 1..NonceSize |-> [n |-> x]] : x \in Nonces}

\* aes.NewCipher fails for a key that has not 16, 24 or 32 bytes
NewCipherFails(key) == key.size \notin {16, 24, 32}

\* the byte that hides byte b at place i, and the tag of a ciphertext
EncByte(key, nonce, i, b) == [enc |-> b, k |-> key.id, nonce |-> nonce, at |-> i]
Tag(key, nonce, ct) == [mac |-> ct, k |-> key.id, nonce |-> nonce]

\* the byte a ciphertext byte gives under key and nonce at place i
DecByte(key, nonce, i, byte) ==
    IF \E b \in {"a", "b"} : byte = EncByte(key, nonce, i, b) THEN byte.enc ELSE "?"

\* gcm.Seal(nonce, nonce, plaintext, nil): nonce, ciphertext, tag
Seal(key, nonce, plaintext) ==
    LET ct == [i \in 1..Len(plaintext) |-> EncByte(key, nonce, i, plaintext[i])]
    IN  nonce \o ct \o << Tag(key, nonce, ct) >>

\* a faulty variant: the tag is not compared
OpenUnverified(key, nonce, ciphertext) ==
    IF ciphertext = <<>> THEN [err |-> "cipher: message authentication failed", plaintext |-> <<>>]
    ELSE [err |-> "",
          plaintext |-> [i \in 1..(Len(ciphertext) - 1) |-> DecByte(key, nonce, i, ciphertext[i])]]

\* gcm.Open(nil, nonce, ciphertext, nil)
Open(key, nonce, ciphertext) ==
    LET ct == SubSeq(ciphertext, 1, Len(ciphertext) - 1)
    IN  IF ciphertext = <<>> \/ ciphertext[Len(ciphertext)] # Tag(key, nonce, ct)
        THEN [err |-> "cipher: message authentication failed", plaintext |-> <<>>]
        ELSE [err |-> "", plaintext |-> [i \in 1..Len(ct) |-> DecByte(key, nonce, i, ct[i])]]

\* encryptFile on bytes
encryptBytes(key, plaintext, nonce) ==
    IF NewCipherFails(key) THEN [err |-> "failed to create AES cipher", data |-> <<>>]
    ELSE [err |-> "", data |-> Seal(key, nonce, plaintext)]

\* decryptFile on bytes
decryptBytes(key, encryptedData) ==
    IF NewCipherFails(key) THEN [err |-> "failed to create AES cipher", plaintext |-> <<>>]
    ELSE IF Len(encryptedData) < NonceSize
    THEN [err |-> "ciphertext too short", plaintext |-> <<>>]
    ELSE LET r == Open(key, SubSeq(encryptedData, 1, NonceSize),
                       SubSeq(encryptedData, NonceSize + 1, Len(encryptedData)))
         IN  [err |-> IF r.err = "" THEN "" ELSE Wrap("decryption failed", r.err),
              plaintext |-> r.plaintext]

\* a file of bytes, and the path of the blob
Bytes(b) == [t |-> "bytes", b |-> b]
BlobPath == DbPath(D2)

\* the bytes someone may put in place of a byte of the blob
OtherBytes == {[x |-> "junk"]} \cup {[n |-> x] : x \in Nonces}

InitCipher ==
    /\ fs = [p \in {BlobPath} |-> NoFile]
    /\ exe = "none"
    /\ pc = "cipher"
    /\ results = <<>>
    /\ exitCode = -1
    /\ last = NoLast

\* encryptFile was called and the blob written: results tells what has
\* happened to the blob since
CipherSeal ==
    /\ pc = "cipher" /\ ~Exists(fs, BlobPath)
    /\ \E key \in CipherKeys, plaintext \in Plaintexts, nonce \in CipherNonces :
          LET r == encryptBytes(key, plaintext, nonce)
          IN  /\ fs' = IF r.err = "" THEN [fs EXCEPT ![BlobPath] = Bytes(r.data)] ELSE fs
              /\ results' = IF r.err = "" THEN <<"sealed">> ELSE results
              /\ last' = [op |-> [operation |-> "seal", key |-> key, plaintext |-> plaintext],
                           err |-> r.err, log |-> ""]
    /\ UNCHANGED <<exe, pc, exitCode>>

\* someone put another byte in place of a byte of the blob, or one byte of
\* the blob in place of another
CipherAlter ==
    /\ pc = "cipher" /\ results = <<"sealed">>
    /\ \E i \in 1..Len(fs[BlobPath].b) :
       \E byte \in (OtherBytes \cup {fs[BlobPath].b[j] : j \in 1..Len(fs[BlobPath].b)})
                        \ {fs[BlobPath].b[i]} :
          fs' = [fs EXCEPT ![BlobPath] = Bytes([fs[BlobPath].b EXCEPT ![i] = byte])]
    /\ results' = Append(results, "altered")
    /\ UNCHANGED <<exe, pc, exitCode, last>>

\* the end of the blob was cut off
CipherTruncate ==
    /\ pc = "cipher" /\ results = <<"sealed">>
    /\ \E n \in 0..(Len(fs[BlobPath].b) - 1) :
          fs' = [fs EXCEPT ![BlobPath] = Bytes(SubSeq(fs[BlobPath].b, 1, n))]
    /\ results' = Append(results, "truncated")
    /\ UNCHANGED <<exe, pc, exitCode, last>>

\* decryptFile was called on the blob
CipherOpen ==
    /\ pc = "cipher" /\ Exists(fs, BlobPath)
    /\ \E key \in CipherKeys :
          LET r == decryptBytes(key, fs[BlobPath].b)
          IN  last' = [op |-> [operation |-> "open", key |-> key, plaintext |-> r.plaintext],
                       err |-> r.err, log |-> ""]
    /\ UNCHANGED <<fs, exe, pc, results, exitCode>>

NextCipher == CipherSeal \/ CipherAlter \/ CipherTruncate \/ CipherOpen

SpecCipher == InitCipher /\ [][NextCipher]_vars

-----------------------------------------------------------------------------
(* The key fetch.  extractKeyFromImage runs steghide, which writes the key *)
(* to a file in /tmp, reads the file and removes it.  What steghide has    *)
(* written when it exits is its own affair: the model takes every case.    *)
(* The ledger and pointer functions are run with the key fetch they start  *)
(* with; a failed fetch is their fault "db_key" or "ptr_key".              *)

\* /tmp/extracted_key.txt
tempKeyFile == Join(tmpDir, <<"extracted_key.txt">>)

\* the key file as steghide writes it: all of it, or a part
KeyFile(wrote) == [t |-> "key", k |-> IF wrote = "all" THEN Key ELSE "part"]

\* how a run of steghide ends: its exit code and what it wrote of the file
ToolOutcomes ==
    { [exit |-> 0, wrote |-> "all"], [exit |-> 0, wrote |-> "none"],
      [exit |-> 1, wrote |-> "none"], [exit |-> 1, wrote |-> "part"],
      [exit |-> 1, wrote |-> "all"] }

\* the deferred os.Remove is registered after the check of cmd.Run
extractKeyFromImage(f, tool, fault) ==
    LET ran == IF tool.wrote = "none" THEN f
               ELSE [f EXCEPT ![tempKeyFile] = KeyFile(tool.wrote)]
    IN  IF tool.exit # 0
        THEN [fs |-> ran, err |-> "steghide extraction failed"]
        ELSE IF fault = "key_read" \/ ~Exists(ran, tempKeyFile)
        THEN [fs |-> Removed(ran, tempKeyFile), err |-> "failed to read extracted key"]
        ELSE [fs |-> Removed(ran, tempKeyFile), err |-> ""]

\* the fault of the function that made the key fetch k
AfterFetch(k, failed, fault) == IF k.err # "" THEN failed ELSE fault

KeyFaults == {"none", "key_read"}
KeyLedgerFaults == {"none", "db_write", "db_sum"}
KeyPointerFaults == {"none", "ptr_write"}

InitKey ==
    /\ fs \in {[p \in AllPaths \cup {tempKeyFile} |->
                    IF p = tempKeyFile THEN NoFile ELSE InitFs(kind)[p]] :
                kind \in DirKinds}
    /\ exe = "none"
    /\ pc = "key"
    /\ results = <<>>
    /\ exitCode = -1
    /\ last = NoLast

KeyUpsert ==
    /\ pc = "key"
    /\ \E p \in PatchFiles, h \in Hashes, tool \in ToolOutcomes,
          kf \in KeyFaults, fault \in KeyLedgerFaults :
       \E n \in FreshNonces(fs, DbPath(Dir(p))) :
          LET k == extractKeyFromImage(fs, tool, kf)
          IN  Called(Op("upsert", p, <<>>, h),
                     updateIntegrityDatabase(k.fs, p, h, AfterFetch(k, "db_key", fault), n))

KeyRemoveEntry ==
    /\ pc = "key"
    /\ \E p \in PatchFiles, tool \in ToolOutcomes,
          kf \in KeyFaults, fault \in KeyLedgerFaults :
       \E n \in FreshNonces(fs, DbPath(Dir(p))) :
          LET k == extractKeyFromImage(fs, tool, kf)
          IN  Called(Op("remove entry", p, <<>>, EmptyHash),
                     removeFromIntegrityDatabase(k.fs, p, AfterFetch(k, "db_key", fault), n))

KeyPointer ==
    /\ pc = "key"
    /\ \E d \in PatchDirs, tool \in ToolOutcomes,
          kf \in KeyFaults, fault \in KeyPointerFaults :
       \E n \in FreshNonces(fs, FolderFile(d)) :
          LET k == extractKeyFromImage(fs, tool, kf)
              r == updateFolderFile(k.fs, d, computeChecksum(k.fs, DbPath(d)),
                                    AfterFetch(k, "ptr_key", fault), n)
          IN  Called(Op("pointer", d, <<>>, EmptyHash), OutLog(r.fs, r.err, ""))

NextKey == KeyUpsert \/ KeyRemoveEntry \/ KeyPointer

SpecKey == InitKey /\ [][NextKey]_vars

-----------------------------------------------------------------------------
(* The installer script (patch_processor.sh).  pc is the line the shell is *)
(* at, exe tells whether it is the script's shell or the subshell of a     *)
(* command substitution, results are the ERROR lines handle_error has      *)
(* written to the log, and last holds what the shell remembers: the        *)
(* message handle_error was given, the status update_metadata_status is    *)
(* writing, where the subshell's parent goes on, the checksum read from    *)
(* the metadata, and how many calls of handle_error are nested.            *)
(* handle_error and update_metadata_status call each other; bash has no    *)
(* limit on nested calls but its stack, and is killed by a signal when the *)
(* stack is full.                                                          *)

\* nested calls of handle_error the stack of the shell holds
MaxNest == 3

METADATA_FILE ==
    <<"/", "sda1", "/", "data", "/", "cxfw", "/", "patch", "/", "metadata.json">>
PATCH_FILE ==
    <<"/", "sda1", "/", "data", "/", "cxfw", "/", "patch", "/", "patch.cx">>
DB_FILE == <<"/", "newroot", "/", "data", "/", "sysconf.db">>
metadataTemp == Join(tmpDir, <<"metadata_temp.json">>)
InstallerPaths == {METADATA_FILE, PATCH_FILE, DB_FILE, metadataTemp}

\* a metadata file: whether jq can parse it, and its status
Metadata(ok, status) == [t |-> "json", ok |-> ok, status |-> status]

\* what the partition mounted at /sda1 may hold
MetadataFiles == {NoFile, Metadata(TRUE, "new"), Metadata(FALSE, "new")}
PatchArchives == {NoFile, Data(2)}

NoShell == [msg |-> "", status |-> "", ret |-> "", checksum |-> "", nest |-> 0]

\* jq ".status = ..." METADATA_FILE > /tmp/metadata_temp.json: the shell
\* makes the temp file empty before jq runs
jqStatus(f, status) ==
    IF Exists(f, METADATA_FILE) /\ f[METADATA_FILE].ok
    THEN Out([f EXCEPT ![metadataTemp] = Metadata(TRUE, status)], "")
    ELSE Out([f EXCEPT ![metadataTemp] = Text(<<>>)], "jq failed")

InitInstaller ==
    /\ fs \in {[p \in InstallerPaths |-> IF p = DB_FILE THEN db ELSE NoFile] :
                  db \in {NoFile, Data(1)}}
    /\ exe = "installer"
    /\ pc = "mount"
    /\ results = <<>>
    /\ exitCode = -1
    /\ last = NoShell

\* command || handle_error "msg": the call of handle_error
Fail(msg) ==
    /\ pc' = "handle_error"
    /\ last' = [last EXCEPT !.msg = msg]
    /\ UNCHANGED <<exe, results, exitCode>>

\* the shell goes on at the next line
GoOn(next) ==
    /\ pc' = next
    /\ UNCHANGED <<exe, results, exitCode, last>>

\* the shell ends: the subshell of a command substitution gives its parent
\* an empty value, the script's shell ends the script with the code
Ended(code) ==
    IF exe = "subshell"
    THEN /\ exe' = "installer"
         /\ pc' = last.ret
         /\ last' = [NoShell EXCEPT !.checksum = ""]
         /\ UNCHANGED <<results, exitCode>>
    ELSE /\ pc' = IF code \in {0, 1} THEN "exited" ELSE "killed"
         /\ exitCode' = code
         /\ UNCHANGED <<exe, results, last>>

\* a command of the script that works on files the model does not hold
Tool(at, next, msg) ==
    /\ pc = at
    /\ \E ok \in BOOLEAN : IF ok THEN GoOn(next) ELSE Fail(msg)
    /\ UNCHANGED fs

\* line 38: mount makes the files of the partition appear
mount_sda1 ==
    /\ pc = "mount"
    /\ \E ok \in BOOLEAN :
          IF ok
          THEN /\ \E meta \in MetadataFiles, patch \in PatchArchives :
                     fs' = [fs EXCEPT ![METADATA_FILE] = meta, ![PATCH_FILE] = patch]
               /\ GoOn("patch")
          ELSE fs' = fs /\ Fail("Failed to mount /sda1")

\* lines 126 and 127
process_patch ==
    /\ pc \in {"patch", "meta"}
    /\ IF pc = "patch"
       THEN IF Exists(fs, PATCH_FILE) THEN GoOn("meta")
            ELSE Fail("Patch file patch.cx not found")
       ELSE IF Exists(fs, METADATA_FILE) THEN GoOn("applied")
            ELSE Fail("Metadata file metadata.json not found")
    /\ UNCHANGED fs

\* lines 59, 68 and 117: $(get_metadata_value "checksum") runs in a subshell
get_metadata_value ==
    /\ pc \in {"applied", "verify", "insert"}
    /\ LET ret == IF pc = "applied" THEN "applied2"
                  ELSE IF pc = "verify" THEN "verify2" ELSE "insert2"
       IN  IF Exists(fs, METADATA_FILE) /\ fs[METADATA_FILE].ok
           THEN /\ pc' = ret
                /\ last' = [last EXCEPT !.checksum = "sum"]
                /\ exe' = exe
           ELSE /\ pc' = "handle_error"
                /\ exe' = "subshell"
                /\ last' = [NoShell EXCEPT
                              !.ret = ret,
                              !.msg = IF Exists(fs, METADATA_FILE)
                                      THEN "Failed to parse metadata.json"
                                      ELSE "metadata.json not found"]
    /\ UNCHANGED <<fs, results, exitCode>>

\* lines 60 to 63
check_patch_applied ==
    /\ pc = "applied2"
    /\ IF ~Exists(fs, DB_FILE)
       THEN Fail("Database file /newroot/data/sysconf.db not found")
       ELSE \E count \in {0, 1} :
               IF count = 1
               THEN /\ pc' = "jq"
                    /\ last' = [last EXCEPT !.status = "success"]
                    /\ UNCHANGED <<exe, results, exitCode>>
               ELSE GoOn("verify")
    /\ UNCHANGED fs

\* lines 69 to 71
verify_checksum ==
    /\ pc = "verify2"
    /\ \E same \in BOOLEAN :
          IF same /\ last.checksum # "" THEN GoOn("copy") ELSE Fail("Checksum mismatch")
    /\ UNCHANGED fs

copy_patch == Tool("copy", "uncorrupt", "Failed to copy patch file to /tmp")

uncorrupt_patch == Tool("uncorrupt", "extract", "Failed to uncorrupt patch.cx")

extract_patch == Tool("extract", "reversal", "Failed to extract patch.cx")

create_defaultvalues_reversal ==
    Tool("reversal", "install", "Failed to create defaultvalues reversal JSON")

install_patch_manifest == Tool("install", "rollback", "Failed to install patch_manifest.json")

copy_patch_rollback ==
    Tool("rollback", "insert", "Failed to copy patch_rollback_manifest.json to rollback")

\* lines 118 to 121, and line 138
insert_patch_info ==
    /\ pc = "insert2"
    /\ \E ok \in BOOLEAN :
          IF ok
          THEN /\ pc' = "jq"
               /\ last' = [last EXCEPT !.status = "success"]
               /\ UNCHANGED <<exe, results, exitCode>>
          ELSE Fail("Failed to insert patch info into database")
    /\ UNCHANGED fs

\* lines 24 and 25: the error is logged and update_metadata_status "fail"
\* is called; a shell whose stack is full is killed
handle_error ==
    /\ pc = "handle_error"
    /\ IF last.nest < MaxNest
       THEN /\ results' = Append(results, last.msg)
            /\ pc' = "jq"
            /\ last' = [last EXCEPT !.status = "fail", !.nest = last.nest + 1]
            /\ UNCHANGED <<exe, exitCode>>
       ELSE Ended(139)
    /\ UNCHANGED fs

\* line 52
update_metadata_status ==
    /\ pc = "jq"
    /\ fs' = jqStatus(fs, last.status).fs
    /\ IF jqStatus(fs, last.status).err = ""
       THEN GoOn("mv")
       ELSE Fail("Failed to update metadata.json")

\* lines 53 and 54, and the exit that follows the return: exit 1 of
\* handle_error (line 26), exit 0 of check_patch_applied and of main
move_metadata ==
    /\ pc = "mv"
    /\ \E ok \in BOOLEAN :
          IF ok
          THEN /\ fs' = [fs EXCEPT ![METADATA_FILE] = fs[metadataTemp],
                                   ![metadataTemp] = NoFile]
               /\ Ended(IF last.status = "fail" THEN 1 ELSE 0)
          ELSE /\ fs' = fs
               /\ Fail("Failed to move updated metadata.json")

NextInstaller ==
    \/ mount_sda1 \/ process_patch \/ get_metadata_value \/ check_patch_applied
    \/ verify_checksum \/ copy_patch \/ uncorrupt_patch \/ extract_patch
    \/ create_defaultvalues_reversal \/ install_patch_manifest
    \/ copy_patch_rollback \/ insert_patch_info
    \/ handle_error \/ update_metadata_status \/ move_metadata

SpecInstaller == InitInstaller /\ [][NextInstaller]_vars

\* the shell does not stop while it has a line to run
LiveInstaller == SpecInstaller /\ WF_vars(NextInstaller)

-----------------------------------------------------------------------------
Next ==
    \/ Stage
    \/ Start
    \/ FwdAdd
    \/ FwdRemove
    \/ FwdCommand
    \/ FwdScript
    \/ FwdModifyDefaults
    \/ FwdUnknown
    \/ RbAdd
    \/ RbRemove
    \/ RbCommand
    \/ RbScript
    \/ RbUnknown
    \/ Check
    \/ Finish
    \/ Restart

Spec == Init /\ [][Next]_vars

-----------------------------------------------------------------------------
(* What the properties speak of *)

\* a step in which an operation function of main's loop ran and returned
OpStep == pc = "loop" /\ pc' = "ran"

\* the step that leaves main's loop when no operation is left: every state
\* of the loop has it, so what it implies of that state holds of every one
LoopEnd == pc = "loop" /\ pc' = "exited"

\* the directory whose ledger an add or remove names: forward add is given
\* the directory, the others the file
LedgerDir(e, op) ==
    IF e = "forward" /\ op.operation = "add" THEN op.path ELSE Dir(op.path)

\* the entries of the ledger of directory d, <<>> when it is missing
LedgerOf(f, d) == LoadLedger(f, DbPath(d)).entries

\* the pointer record of directory d
PointerOf(f, d) == decryptFile(Key, f[FolderFile(d)]).plain.v

\* the pointer of d opens and records the digest of the ledger bytes of d
PointerSynced(f, d) ==
    /\ Exists(f, FolderFile(d))
    /\ decryptFile(Key, f[FolderFile(d)]).ok
    /\ PointerOf(f, d).hash = Digest(f[DbPath(d)])

\* the just finished operation of the state
Done(e, kind, err) ==
    pc = "ran" /\ exe = e /\ last.op.operation = kind /\ last.err = err

-----------------------------------------------------------------------------
(* C1: in both executors, when an add or a remove that touched the ledger  *)
(* of a directory returns success, the pointer of that directory records   *)
(* the digest of the current encrypted bytes of its ledger; the ledger and *)
(* the pointer of every other directory are as they were, so this holds    *)
(* after any sequence of successful operations on any directories.         *)
C1_PointerSyncedOnSuccess ==
    [][(OpStep /\ last'.err = "" /\ last'.op.operation \in {"add", "remove"})
        => LET d == LedgerDir(exe, last'.op)
           IN  /\ (last'.op.operation = "add" \/ exe = "rollback"
                      \/ fs'[DbPath(d)] # fs[DbPath(d)])
                    => PointerSynced(fs', d)
               /\ \A o \in Dirs \ {d} :
                     /\ fs'[DbPath(o)] = fs[DbPath(o)]
                     /\ fs'[FolderFile(o)] = fs[FolderFile(o)]]_vars

\* a forward add recorded the shipped file and the pointer follows the ledger
C1_Witness ==
    /\ Done("forward", "add", "")
    /\ \E i \in DOMAIN LedgerOf(fs, last.op.path) :
          LedgerOf(fs, last.op.path)[i].hash = Digest(Data(2))
    /\ PointerSynced(fs, last.op.path)

-----------------------------------------------------------------------------
(* C2: a directory is never left with a stale pointer while its ledger has *)
(* changed: at the end of every add or remove, whether it returns success  *)
(* or an error, if the operation rewrote the ledger file of the directory  *)
(* then the pointer records the digest of the ledger's new bytes.          *)
C2_NoStalePointer ==
    [][(OpStep /\ last'.op.operation \in {"add", "remove"} /\ last'.op.path # <<>>)
        => LET d == LedgerDir(exe, last'.op)
           IN  fs'[DbPath(d)] # fs[DbPath(d)] => PointerSynced(fs', d)]_vars

-----------------------------------------------------------------------------
(* C3: the engine of both executors runs the operations one at a time in   *)
(* manifest order; an operation is started only if every operation before  *)
(* it returned success; once an operation returns an error no operation is *)
(* started any more, the process exits with code 1 and main changes        *)
(* nothing that the operations left; the exit code is 0 only when the      *)
(* manifest loaded and no operation returned an error.                     *)
C3_FailFastInOrder ==
    [][/\ OpStep =>
            /\ \A i \in DOMAIN results : results[i] = ""
            /\ results' = Append(results, last'.err)
       /\ (pc = "ran" /\ last.err # "") =>
            /\ pc' = "exited" /\ exitCode' = 1
            /\ fs' = fs /\ results' = results
       /\ (pc = "ran" /\ last.err = "") =>
            /\ pc' = "loop" /\ exitCode' = -1
            /\ fs' = fs /\ results' = results
       /\ pc = "exited" => (pc' = "idle" /\ fs' = fs)
       /\ (exitCode' = 0) =>
            /\ pc = "loop"
            /\ \A i \in DOMAIN results : results[i] = ""
            /\ fs' = fs]_vars

\* the second operation failed: exit code 1, and the file the first one
\* installed is in place
C3_Witness ==
    /\ pc = "exited" /\ exitCode = 1
    /\ Len(results) = 2 /\ results[1] = "" /\ results[2] # ""
    /\ \E p \in PatchFiles : fs[p] = Data(2)
    /\ \A s \in Sources : ~Exists(fs, s)

-----------------------------------------------------------------------------
(* C4: a forward add applied again (same path and checksum, the source     *)
(* staged again with the same content) to the state its first application  *)
(* left, the ledger holding the entry and the pointer following the        *)
(* ledger, changes nothing of the integrity state: the ledger holds one    *)
(* entry for the destination, its encrypted bytes are the same, and the    *)
(* path and the hash the pointer records are the same.                     *)
C4_AddTwice ==
    [][(OpStep /\ exe = "forward" /\ last'.op.operation = "add" /\ last'.err = "")
        => LET d == last'.op.path
               destFile == Join(d, Base(last'.op.source))
           IN  ((\E i \in DOMAIN LedgerOf(fs, d) :
                     LedgerOf(fs, d)[i] = [path |-> destFile, hash |-> last'.op.checksum])
                 /\ PointerSynced(fs, d))
               => /\ fs'[DbPath(d)] = fs[DbPath(d)]
                  /\ Cardinality(Matching(LedgerOf(fs', d), destFile)) = 1
                  /\ PointerOf(fs', d) = PointerOf(fs, d)
                  /\ PointerSynced(fs', d)]_vars

\* the second application: the upsert found the entry the first one wrote
C4_Witness ==
    /\ Done("forward", "add", "")
    /\ last.log = "already exists"
    /\ Cardinality(Matching(LedgerOf(fs, last.op.path),
                            Join(last.op.path, Base(last.op.source)))) = 1
    /\ PointerSynced(fs, last.op.path)

-----------------------------------------------------------------------------
(* C5: a successful forward add of the staged source s into directory d    *)
(* with checksum c ends with the content of s at d/basename(s), s gone,    *)
(* and the entry {d/basename(s), c} in the ledger of d.                    *)
C5_AddInstalls ==
    [][(OpStep /\ exe = "forward" /\ last'.op.operation = "add" /\ last'.err = "")
        => LET s == last'.op.source
               d == last'.op.path
               destFile == Join(d, Base(s))
           IN  /\ Exists(fs, s)
               /\ Digest(fs[s]) = last'.op.checksum
               /\ fs'[destFile] = fs[s]
               /\ ~Exists(fs', s)
               /\ \E i \in DOMAIN LedgerOf(fs', d) :
                     LedgerOf(fs', d)[i] = [path |-> destFile, hash |-> last'.op.checksum]
               /\ LoadLedger(fs', DbPath(d)).err = ""]_vars

\* an add into a directory that had no ledger
C5_Witness ==
    /\ Done("forward", "add", "")
    /\ last.log = "added"
    /\ fs[Join(last.op.path, Base(last.op.source))] = Data(2)
    /\ ~Exists(fs, last.op.source)
    /\ LedgerOf(fs, last.op.path) =
          << [path |-> Join(last.op.path, Base(last.op.source)),
              hash |-> Digest(Data(2))] >>

-----------------------------------------------------------------------------
(* C6: when the digest of the file copied to the destination differs from  *)
(* the checksum of the manifest, forward add returns an error and the run  *)
(* ends with exit code 1; the ledger and the pointer of the directory are  *)
(* as they were, the staged source is still there and the copy stays at    *)
(* the destination.                                                        *)
C6_ChecksumMismatch ==
    [][/\ (OpStep /\ exe = "forward" /\ last'.op.operation = "add"
            /\ last'.op.source # <<>> /\ last'.op.path # <<>>)
          => LET s == last'.op.source
                 d == last'.op.path
                 destFile == Join(d, Base(s))
             IN  /\ (Exists(fs, s) /\ Digest(fs[s]) # last'.op.checksum)
                      => last'.err # ""
                 /\ last'.err = "checksum mismatch"
                      => /\ Digest(fs[s]) # last'.op.checksum
                         /\ fs'[DbPath(d)] = fs[DbPath(d)]
                         /\ fs'[FolderFile(d)] = fs[FolderFile(d)]
                         /\ Exists(fs', s) /\ fs'[s] = fs[s]
                         /\ fs'[destFile] = fs[s]
       /\ (pc = "ran" /\ last.err = "checksum mismatch")
          => (pc' = "exited" /\ exitCode' = 1 /\ fs' = fs)]_vars

\* the run ended on a mismatch: the copy replaced the file of the factory
\* image, the source is still staged
C6_Witness ==
    /\ pc = "exited" /\ exitCode = 1 /\ exe = "forward"
    /\ last.op.operation = "add" /\ last.err = "checksum mismatch"
    /\ last.op.checksum = Digest(Data(1))
    /\ fs[last.op.source] = Data(2)
    /\ fs[Join(last.op.path, Base(last.op.source))] = Data(2)
    /\ LedgerOf(fs, last.op.path) = FactoryEntries(last.op.path)

-----------------------------------------------------------------------------
(* C7: forward remove of a path that holds no file returns success when    *)
(* no step of it fails: no backup is written, the ledger and the pointer   *)
(* are as they were (nothing in the file system changes), and the run goes *)
(* on with the next operation.                                             *)
C7_RemoveMissing ==
    (pc = "loop" /\ exe = "forward")
    => \A op \in FwdRemoveOps :
          (op.path # <<>> /\ fs[op.path] = NoFile)
          => /\ \A n1, n2 \in Nonces :
                   removeFile(fs, op, "none", n1, n2) = Out(fs, "")
             /\ \A fault \in RemoveFaults, n1, n2 \in Nonces :
                   removeFile(fs, op, fault, n1, n2).fs = fs
             /\ mainAfter("").pc = "loop"

\* a remove of a missing file returned success; no backup, and another
\* operation ran before it
C7_Witness ==
    /\ Done("forward", "remove", "")
    /\ Len(results) = 2
    /\ fs[last.op.path] = NoFile
    /\ fs[BackupPath(last.op.path)] = NoFile
    /\ LedgerOf(fs, Dir(last.op.path)) = FactoryEntries(Dir(last.op.path))

-----------------------------------------------------------------------------
(* C8: the ledger upsert of (path, hash) on a ledger that loads has three  *)
(* outcomes.  An entry with the path and the hash exists: the file is not  *)
(* written and the digest of its current bytes is returned.  An entry with *)
(* the path and another hash exists: its hash is replaced where it stands. *)
(* No entry with the path exists: one entry is appended at the end.  The   *)
(* entries of every other path, and their order, are the same in all three.*)
C8_Upsert ==
    pc = "ledger"
    => \A p \in LedgerPaths, h \in Hashes :
       \A n \in FreshNonces(fs, DbPath(Dir(p))) :
          LET dbPath == DbPath(Dir(p))
              old == LoadLedger(fs, dbPath)
              r == updateIntegrityDatabase(fs, p, h, "none", n)
              new == LoadLedger(r.fs, dbPath)
              hit == {i \in DOMAIN old.entries : old.entries[i].path = p}
              entry == [path |-> p, hash |-> h]
          IN  old.err = ""
              => /\ r.err = "" /\ new.err = ""
                 /\ r.hash = Digest(r.fs[dbPath])
                 /\ \A q \in DOMAIN fs \ {dbPath} : r.fs[q] = fs[q]
                 /\ IF \E i \in hit : old.entries[i].hash = h
                    THEN r.fs = fs
                    ELSE IF hit # {}
                    THEN /\ r.fs[dbPath] # fs[dbPath]
                         /\ Len(new.entries) = Len(old.entries)
                         /\ \A i \in DOMAIN old.entries :
                               new.entries[i] = IF i \in hit THEN entry
                                                ELSE old.entries[i]
                    ELSE /\ r.fs[dbPath] # fs[dbPath]
                         /\ new.entries = old.entries \o <<entry>>
                 /\ SelectSeq(new.entries, LAMBDA e : e.path # p)
                      = SelectSeq(old.entries, LAMBDA e : e.path # p)

\* an upsert replaced the hash of the second of three entries
C8_Witness ==
    /\ pc = "ledger" /\ last.op.operation = "upsert" /\ last.err = ""
    /\ last.log = "updated"
    /\ Len(LedgerOf(fs, Dir(last.op.path))) = 3
    /\ LedgerOf(fs, Dir(last.op.path))[2] =
          [path |-> last.op.path, hash |-> last.op.checksum]

-----------------------------------------------------------------------------
(* C9: the ledger remove of a path on a ledger that loads leaves the       *)
(* entries whose path differs, in their order; it succeeds also when no    *)
(* entry matched; it always seals and writes the ledger file again and     *)
(* returns the digest of the bytes it wrote.                               *)
C9_RemoveEntry ==
    pc = "ledger"
    => \A p \in LedgerPaths :
       \A n \in FreshNonces(fs, DbPath(Dir(p))) :
          LET dbPath == DbPath(Dir(p))
              old == LoadLedger(fs, dbPath)
              r == removeFromIntegrityDatabase(fs, p, "none", n)
              new == LoadLedger(r.fs, dbPath)
          IN  old.err = ""
              => /\ r.err = "" /\ new.err = ""
                 /\ new.entries = SelectSeq(old.entries, LAMBDA e : e.path # p)
                 /\ r.fs[dbPath] = encryptFile(Key, MarshalEntries(new.entries), n)
                 /\ r.fs[dbPath] # fs[dbPath]
                 /\ r.hash = Digest(r.fs[dbPath])
                 /\ \A q \in DOMAIN fs \ {dbPath} : r.fs[q] = fs[q]

\* a remove that matched no entry of a ledger of two wrote the ledger again
C9_Witness ==
    /\ pc = "ledger" /\ last.op.operation = "remove entry" /\ last.err = ""
    /\ last.log = "not found"
    /\ Len(LedgerOf(fs, Dir(last.op.path))) = 2
    /\ fs[DbPath(Dir(last.op.path))].nonce = "n2"

-----------------------------------------------------------------------------
(* C10: the ledger upsert and the ledger remove take a missing ledger file *)
(* for an empty ledger and return no error.  When the ledger file exists   *)
(* and does not decrypt they return an error and write nothing, so the     *)
(* ledger is not reset to empty; the add or remove that called them        *)
(* returns the error, the bytes of the ledger and of the pointer are as    *)
(* they were, and the run ends with exit code 1.  (The ledger functions    *)
(* and the operations are applied to every state of the loop.)             *)
Undecryptable(f, d) ==
    f[DbPath(d)] # NoFile /\ ~decryptFile(Key, f[DbPath(d)]).ok

DecryptError == "failed to update integrity database: failed to decrypt db file"

C10_MissingOrUndecryptableLedger ==
    [][/\ LoopEnd =>
            \A p \in PatchFiles, h \in Hashes, n \in Nonces :
               LET d == Dir(p)
                   up == updateIntegrityDatabase(fs, p, h, "none", n)
                   rm == removeFromIntegrityDatabase(fs, p, "none", n)
               IN  /\ fs[DbPath(d)] = NoFile
                      => /\ up.err = "" /\ rm.err = ""
                         /\ LedgerOf(up.fs, d) = <<[path |-> p, hash |-> h]>>
                         /\ LedgerOf(rm.fs, d) = <<>>
                         /\ up.fs[DbPath(d)] # NoFile /\ rm.fs[DbPath(d)] # NoFile
                   /\ Undecryptable(fs, d)
                      => \A fault \in LedgerFaults :
                            /\ updateIntegrityDatabase(fs, p, h, fault, n).err # ""
                            /\ updateIntegrityDatabase(fs, p, h, fault, n).fs = fs
                            /\ removeFromIntegrityDatabase(fs, p, fault, n).err # ""
                            /\ removeFromIntegrityDatabase(fs, p, fault, n).fs = fs
                            /\ up.err = "failed to decrypt db file"
                            /\ rm.err = "failed to decrypt db file"
       /\ (OpStep /\ last'.op.operation \in {"add", "remove"} /\ last'.op.path # <<>>
              /\ Undecryptable(fs, LedgerDir(exe, last'.op)))
          => LET d == LedgerDir(exe, last'.op)
             IN  /\ fs'[DbPath(d)] = fs[DbPath(d)]
                 /\ fs'[FolderFile(d)] = fs[FolderFile(d)]
                 /\ last'.err = "" => (exe = "forward" /\ last'.op.operation = "remove")
       /\ (LoopEnd /\ exe = "forward") =>
            \A op \in FwdAddOps, n1, n2 \in Nonces :
               (op.source # <<>> /\ Undecryptable(fs, op.path)
                  /\ fs[op.source] # NoFile /\ Digest(fs[op.source]) = op.checksum)
               => addFile(fs, op, "none", n1, n2).err = DecryptError
       /\ (LoopEnd /\ exe = "forward") =>
            \A op \in FwdRemoveOps, n1, n2 \in Nonces :
               (op.path # <<>> /\ fs[op.path] # NoFile /\ Undecryptable(fs, Dir(op.path)))
               => removeFile(fs, op, "none", n1, n2).err = DecryptError
       /\ (LoopEnd /\ exe = "rollback") =>
            \A op \in RbRemoveOps, n1, n2 \in Nonces :
               Undecryptable(fs, Dir(op.path))
               => rbRemoveFile(fs, op, "none", n1, n2).err = DecryptError
       /\ (LoopEnd /\ exe = "rollback") =>
            \A op \in RbAddOps, n1, n2 \in Nonces :
               (fs[op.source] # NoFile /\ Undecryptable(fs, Dir(op.path)))
               => rbAddFile(fs, op, "none", n1, n2).err = DecryptError
       /\ (pc = "ran" /\ last.err = DecryptError)
          => (pc' = "exited" /\ exitCode' = 1 /\ fs' = fs)]_vars

\* a run ended on a ledger that does not open: its bytes are those of
\* before the run, and so is the pointer
C10_Witness ==
    /\ pc = "exited" /\ exitCode = 1
    /\ last.op.operation = "add" /\ last.err = DecryptError
    /\ \E d \in PatchDirs :
          /\ Undecryptable(fs, d)
          /\ fs[DbPath(d)] = FactoryLedger(d, OtherKey)
          /\ fs[FolderFile(d)] = FactoryPointer(d, Key, FactoryLedger(d, OtherKey))

-----------------------------------------------------------------------------
(* The defaults file *)

\* the lines of the defaults file, and what the tool parses from lines
DefaultsLines == fs[defaultsFile].lines
Parsed(lines) == parseDefaultValues(ScanLines(lines))

\* the lines updateDefaultValues writes for the defaults file lines and the
\* comparison output
Restored(lines, output) == JoinNewline(RestoredFrom(ScanLines(lines), output, 1))

\* C11: the comparison is a correct inverse: generate it for the entries of
\* a modify_defaults operation from the defaults file, let the forward
\* executor apply the operation, restore with the comparison: the restored
\* file parses to the section -> key -> value mapping of the file before.
C11_DiffInverts ==
    pc = "config" =>
        \A entries \in CfgEntries :
        \A output \in Outputs(Parsed(DefaultsLines), entries) :
        \A flat \in FlatEntries(entries) :
        \A order \in KeyOrders(DOMAIN flat) :
            Parsed(Restored(ModifiedLines(DefaultsLines, flat, order), output))
                = Parsed(DefaultsLines)

\* the section of the comparison that stands for the section of line i
OutputSection(lines, i) ==
    IF currentSection(lines, i) = <<>> THEN <<"unscoped">> ELSE currentSection(lines, i)

\* line i is the key line of a key the entries request for its section
Requested(lines, entries, i) ==
    /\ IsKeyLine(lines[i])
    /\ \E s \in DOMAIN entries :
          /\ iniSectionName(s) = currentSection(lines, i)
          /\ KeyOf(lines[i]) \in DOMAIN entries[s]

\* C12: modifyDefaults leaves every line that is not the key line of a
\* requested (section, key) as it is and where it is; a line with the key
\* name of a request inside another section is such a line.
C12_ModifyKeepsOtherLines ==
    pc = "config" =>
        \A entries \in CfgEntries :
        \A flat \in FlatEntries(entries) :
        \A order \in KeyOrders(DOMAIN flat) :
        \A i \in 1..Len(DefaultsLines) :
            ~Requested(DefaultsLines, entries, i)
                => ModifiedLines(DefaultsLines, flat, order)[i] = DefaultsLines[i]

\* the comparison file of the state, when the tool can read one
HasOutput == fs[defaultOutputFile].t = "json"
OutputNow == fs[defaultOutputFile].v

\* the comparison has an entry for the section and key of key line i
HasEntry(lines, output, i) ==
    /\ IsKeyLine(lines[i])
    /\ OutputSection(lines, i) \in DOMAIN output
    /\ KeyOf(lines[i]) \in DOMAIN output[OutputSection(lines, i)]

\* the entry of the comparison for key line i
EntryOf(lines, output, i) == output[OutputSection(lines, i)][KeyOf(lines[i])]

\* key line i is scheduled for removal, for restoration
ForRemoval(lines, output, i) ==
    /\ HasEntry(lines, output, i)
    /\ ~EntryOf(lines, output, i).exists
    /\ EntryOf(lines, output, i).current_value = <<>>
ForRestoration(lines, output, i) ==
    HasEntry(lines, output, i) /\ EntryOf(lines, output, i).exists

\* C13: updateDefaultValues emits, in order and as they are, the lines that
\* are neither scheduled for removal nor for restoration: blank lines,
\* comments, headers, other key lines and lines without "=".
C13_RestoreKeepsOtherLines ==
    pc = "config" /\ HasOutput =>
        LET lines == ScanLines(DefaultsLines)
            out == RestoredFrom(lines, OutputNow, 1)
            stays == {i \in 1..Len(lines) : ~ForRemoval(lines, OutputNow, i)}
            at(i) == Cardinality({j \in stays : j <= i})
        IN  \A i \in stays :
                ~ForRestoration(lines, OutputNow, i)
                    => at(i) <= Len(out) /\ out[at(i)] = lines[i]

\* C14: modify_defaults setting the unscoped key K of a line "K = old" to V
\* gives a file whose line at that place reads "K = V", with as many lines
\* as before and every other line as it was.
C14_ModifyInPlace ==
    pc = "config" =>
        \A entries \in {e \in CfgEntries : DOMAIN e = {<<"global">>}} :
        \A k \in DOMAIN entries[<<"global">>] :
        \A i \in 1..Len(DefaultsLines) :
            LET out == ModifiedLines(DefaultsLines, entries[<<"global">>], <<k>>)
            IN  /\ DOMAIN entries[<<"global">>] = {k}
                /\ IsKeyLine(DefaultsLines[i])
                /\ KeyOf(DefaultsLines[i]) = k
                /\ currentSection(DefaultsLines, i) = <<>>
                => /\ out[i] = Sprintf(k, entries[<<"global">>][k])
                   /\ Len(out) = Len(DefaultsLines)
                   /\ \A j \in 1..Len(DefaultsLines) :
                         ~(/\ IsKeyLine(DefaultsLines[j])
                           /\ KeyOf(DefaultsLines[j]) = k
                           /\ currentSection(DefaultsLines, j) = <<>>)
                             => out[j] = DefaultsLines[j]

\* the key lines of key in the section a manifest section stands for
LinesOf(lines, sectionName, key) ==
    {i \in 1..Len(lines) :
        /\ IsKeyLine(lines[i])
        /\ KeyOf(lines[i]) = key
        /\ currentSection(lines, i)
                = IF sectionName = <<"global">> THEN <<>> ELSE sectionName}

RECURSIVE ScheduledFrom(_, _, _)
\* the key lines and headers from line i on as the comparison schedules
\* them: a key line for removal is left out, one for restoration reads
\* "key = current_value", every other one is as it was
ScheduledFrom(lines, output, i) ==
    IF i > Len(lines) THEN <<>>
    ELSE (IF ~(IsKeyLine(lines[i]) \/ IsHeader(lines[i])) \/ ForRemoval(lines, output, i)
          THEN <<>>
          ELSE IF ForRestoration(lines, output, i)
          THEN << Sprintf(KeyOf(lines[i]), EntryOf(lines, output, i).current_value) >>
          ELSE << lines[i] >>)
         \o ScheduledFrom(lines, output, i + 1)

\* C16: updateDefaultValues only updates or deletes: a key line is dropped
\* exactly when its entry has exists = false and current_value = "", it is
\* written as "key = current_value" exactly when its entry has exists =
\* true; the output has no key line or header the input has not, and no
\* more lines than the input.
C16_RestoreUpdatesOrDeletes ==
    pc = "config" /\ HasOutput =>
        LET lines == ScanLines(DefaultsLines)
            out == RestoredFrom(lines, OutputNow, 1)
        IN  /\ SelectSeq(out, LAMBDA l : IsKeyLine(l) \/ IsHeader(l))
                    = ScheduledFrom(lines, OutputNow, 1)
            /\ Len(out) <= Len(lines)
            /\ \A n \in 1..Len(out) :
                  /\ IsHeader(out[n]) => \E i \in 1..Len(lines) : lines[i] = out[n]
                  /\ IsKeyLine(out[n]) =>
                        \E i \in 1..Len(lines) :
                            /\ IsKeyLine(lines[i])
                            /\ KeyOf(lines[i]) = KeyOf(out[n])
                            /\ currentSection(lines, i) = currentSection(out, n)

\* --restore has dropped the line "J=3" the forward executor had appended to
\* "K=2\n" and has written the line of K anew with the value of before
C16_Witness ==
    /\ last.op.operation = "restore" /\ last.err = "" /\ HasOutput
    /\ DOMAIN OutputNow = {<<"unscoped">>}
    /\ OutputNow[<<"unscoped">>]
            = (<<"K">> :> OutputEntry(<<"2">>, <<"3">>, TRUE))
                @@ (<<"J">> :> OutputEntry(<<>>, <<"3">>, FALSE))
    /\ DefaultsLines = << <<"K", " ", "=", " ", "2">>, <<>>, <<>> >>

\* C17: every write-back of the defaults file, by modifyDefaults and by
\* updateDefaultValues, is atomic: after a run the defaults file is as it
\* was or holds all the lines the run was to write, never a part of them.
C17_AtomicWriteBack ==
    [][\/ fs'[defaultsFile] = fs[defaultsFile]
       \/ /\ last'.op.operation = "modify_defaults"
          /\ \E entries \in CfgEntries :
             \E flat \in FlatEntries(entries) :
             \E order \in KeyOrders(DOMAIN flat) :
                fs'[defaultsFile] = Text(ModifiedLines(DefaultsLines, flat, order))
       \/ /\ last'.op.operation = "restore"
          /\ HasOutput
          /\ fs'[defaultsFile] = Text(Restored(DefaultsLines, OutputNow))]_vars

-----------------------------------------------------------------------------
(* Forward remove and rollback add *)

\* the files after forward remove of p ran without a fault, and after
\* rollback add of its backup then ran without a fault
AfterRemove(p, n1, n2) ==
    removeFile(fs, Op("remove", p, <<>>, EmptyHash), "none", n1, n2)
AfterRestore(p, c, n1, n2, n3, n4) ==
    rbAddFile(AfterRemove(p, n1, n2).fs, Op("add", p, BackupPath(p), c), "none", n3, n4)

\* the hashes the ledger of the directory of p holds for p in f
HashesOf(f, p) ==
    {LedgerOf(f, Dir(p))[i].hash : i \in Matching(LedgerOf(f, Dir(p)), p)}

\* the file p is there, the ledger of its directory has one entry for it,
\* and forward remove of p returns nil
Removable(p, n1, n2) ==
    /\ fs[p] # NoFile
    /\ LoadLedger(fs, DbPath(Dir(p))).err = ""
    /\ Cardinality(Matching(LedgerOf(fs, Dir(p)), p)) = 1
    /\ AfterRemove(p, n1, n2).err = ""

-----------------------------------------------------------------------------
(* C19: decryptFile gives back what encryptFile was given, for every key   *)
(* and every plaintext, the empty one too; it fails with another key, on a *)
(* blob shorter than the nonce (12 bytes), and on a blob of which a byte   *)
(* was altered or the end cut off.                                         *)
C19_CipherRoundTrip ==
    [][(last'.op.operation = "open" /\ fs' = fs /\ results' = results)
        => LET blob == fs[BlobPath].b
           IN  /\ (results = <<"sealed">> /\ last.op.operation = "seal")
                    => IF last'.op.key = last.op.key
                       THEN last'.err = "" /\ last'.op.plaintext = last.op.plaintext
                       ELSE last'.err # ""
               /\ Len(blob) < NonceSize => last'.err # ""
               /\ Len(results) = 2 => last'.err # ""]_vars

\* the blob of an empty plaintext was opened with its key
C19_Witness ==
    /\ pc = "cipher"
    /\ results = <<"sealed">>
    /\ Len(fs[BlobPath].b) = NonceSize + 1
    /\ last.op.operation = "open"
    /\ last.op.key.size = 16
    /\ last.err = ""
    /\ last.op.plaintext = <<>>

-----------------------------------------------------------------------------
(* Ledger entries by path *)

\* no two entries have the same path
UniquePaths(entries) ==
    \A i, j \in DOMAIN entries : entries[i].path = entries[j].path => i = j

\* the hashes of the entries of path q
HashesIn(entries, q) == {entries[i].hash : i \in Matching(entries, q)}

\* a call on path p that returned err took the entries old to new; done
\* is the set of hashes the path has after the call without error
PathStep(old, new, p, done, err) ==
    /\ UniquePaths(old) => UniquePaths(new)
    /\ \A q \in ({old[i].path : i \in DOMAIN old} \cup {new[i].path : i \in DOMAIN new}
                    \cup LedgerPaths) \ {p} :
          /\ HashesIn(new, q) = HashesIn(old, q)
          /\ Cardinality(Matching(new, q)) = Cardinality(Matching(old, q))
    /\ (err = "" /\ UniquePaths(old))
          => /\ HashesIn(new, p) = done
             /\ Cardinality(Matching(new, p)) = Cardinality(done)
    /\ err # "" => HashesIn(new, p) \in {HashesIn(old, p), done}

\* C20: a ledger without two entries of one path has none after a ledger
\* upsert or a ledger remove, whatever the call returns.  After an upsert of
\* (path, hash) that returned no error the ledger has one entry of the path,
\* with that hash; after a remove that returned no error it has none; a call
\* that returned an error left the entry of the path as it was or as the
\* call without error leaves it.  The entries of every other path are as
\* many as they were and have the hash they had, and the ledgers of the
\* other directories are not touched.  So, in every state the upserts and
\* removes reach, no ledger has two entries of one path, and the entry of a
\* path has the hash of the latest upsert of the path.
C20_LedgerPathUnique ==
    pc = "ledger"
    => /\ \A d \in PatchDirs : UniquePaths(LedgerOf(fs, d))
       /\ \A p \in LedgerPaths, fault \in LedgerFaults :
          \A n \in FreshNonces(fs, DbPath(Dir(p))) :
             /\ \A h \in Hashes :
                   LET r == updateIntegrityDatabase(fs, p, h, fault, n)
                   IN  /\ \A d \in PatchDirs \ {Dir(p)} : r.fs[DbPath(d)] = fs[DbPath(d)]
                       /\ PathStep(LedgerOf(fs, Dir(p)), LedgerOf(r.fs, Dir(p)), p, {h}, r.err)
             /\ LET r == removeFromIntegrityDatabase(fs, p, fault, n)
                IN  /\ \A d \in PatchDirs \ {Dir(p)} : r.fs[DbPath(d)] = fs[DbPath(d)]
                    /\ PathStep(LedgerOf(fs, Dir(p)), LedgerOf(r.fs, Dir(p)), p, {}, r.err)

\* the entry of a path was removed and the path given another hash: the
\* ledger has one entry of the path, at its end, with that hash
C20_Witness ==
    /\ pc = "ledger" /\ last.op.operation = "upsert" /\ last.err = ""
    /\ last.log = "added"
    /\ last.op.checksum # Digest(Data(1))
    /\ Len(LedgerOf(fs, Dir(last.op.path))) = 2
    /\ LedgerOf(fs, Dir(last.op.path))[1].path = Static(Dir(last.op.path))
    /\ LedgerOf(fs, Dir(last.op.path))[2] = [path |-> Join(Dir(last.op.path), <<"c">>),
                                             hash |-> last.op.checksum]
    /\ HashesOf(fs, last.op.path) = {last.op.checksum}

-----------------------------------------------------------------------------
(* Forward remove, step by step *)

\* what forward remove of the file at op.path does under every fault
RemoveOutcomes(op) ==
    {removeFile(fs, op, fault, n1, n2) :
        fault \in RemoveFaults,
        n1 \in FreshNonces(fs, DbPath(Dir(op.path))),
        n2 \in FreshNonces(fs, FolderFile(Dir(op.path)))}

\* C21: forward remove of a file that exists copies it to the backup,
\* compares the digests, removes the ledger entry and updates the pointer,
\* and deletes the file last.  So: when it returns an error the file is
\* still at its path with its content; when it returns nil the file is gone,
\* the backup holds its content, the ledger of the directory has no entry
\* of the path and the pointer records the digest of the ledger; the ledger
\* is written only when the backup holds the content; and in every outcome
\* the content is at the path or in the backup.
C21_RemoveOrder ==
    (pc = "loop" /\ exe = "forward")
    => \A op \in FwdRemoveOps :
          (op.path # <<>> /\ fs[op.path] # NoFile)
          => \A r \in RemoveOutcomes(op) :
                LET p == op.path
                    b == BackupPath(p)
                    d == Dir(p)
                IN  /\ r.err # "" => r.fs[p] = fs[p]
                    /\ r.err = ""
                         => /\ r.fs[p] = NoFile
                            /\ r.fs[b] = fs[p]
                            /\ LoadLedger(r.fs, DbPath(d)).err = ""
                            /\ Matching(LedgerOf(r.fs, d), p) = {}
                            /\ PointerSynced(r.fs, d)
                    /\ r.fs[DbPath(d)] # fs[DbPath(d)] => r.fs[b] = fs[p]
                    /\ r.fs[p] = fs[p] \/ r.fs[b] = fs[p]

-----------------------------------------------------------------------------
(* Forward add when the staged source cannot be deleted *)

\* the file, the ledger entry and the pointer that forward add op commits,
\* taking f to g
Committed(f, g, op) ==
    LET destFile == Join(op.path, Base(op.source))
    IN  /\ g[destFile] = f[op.source]
        /\ \E i \in DOMAIN LedgerOf(g, op.path) :
              LedgerOf(g, op.path)[i] =
                  [path |-> destFile, hash |-> Digest(f[op.source])]
        /\ PointerSynced(g, op.path)

\* C22: when forward add has copied and verified the file and updated the
\* ledger and the pointer, and deleting the staged source fails, add returns
\* an error; the destination file, the ledger entry and the pointer are as
\* the add without the failure leaves them, and the source is still staged.
\* main then exits with code 1: no further operation is executed and no file
\* changes.
C22_SourceDeleteFails ==
    [][/\ (LoopEnd /\ exe = "forward")
           => \A op \in FwdAddOps :
              \A n1 \in FreshNonces(fs, DbPath(op.path)),
                 n2 \in FreshNonces(fs, FolderFile(op.path)) :
                 LET ok == addFile(fs, op, "none", n1, n2)
                     r == addFile(fs, op, "rm", n1, n2)
                 IN  ok.err = ""
                     => /\ r.err = "failed to remove source file"
                        /\ r.fs = [ok.fs EXCEPT ![op.source] = fs[op.source]]
                        /\ Committed(fs, r.fs, op)
                        /\ mainAfter(r.err) = [pc |-> "exited", exitCode |-> 1]
       /\ (OpStep /\ exe = "forward" /\ last'.err = "failed to remove source file")
           => /\ Committed(fs, fs', last'.op)
              /\ fs'[last'.op.source] = fs[last'.op.source]
       /\ (pc = "ran" /\ exe = "forward" /\ last.err = "failed to remove source file")
           => /\ pc' = "exited" /\ exitCode' = 1
              /\ fs' = fs /\ results' = results /\ last' = last
       /\ (pc = "exited" /\ exe = "forward" /\ last.err = "failed to remove source file")
           => /\ pc' = "idle" /\ fs' = fs]_vars

\* the first operation of a forward run was an add whose source could not be
\* deleted: the process has exited with code 1 after that one operation, the
\* shipped file is installed and recorded, and the source is still staged
C22_Witness ==
    /\ pc = "exited" /\ exe = "forward" /\ exitCode = 1
    /\ results = <<"failed to remove source file">>
    /\ last.op.operation = "add"
    /\ fs[Join(last.op.path, Base(last.op.source))] = Data(2)
    /\ fs[last.op.source] = Data(2)
    /\ \E i \in DOMAIN LedgerOf(fs, last.op.path) :
          LedgerOf(fs, last.op.path)[i] =
              [path |-> Join(last.op.path, Base(last.op.source)), hash |-> Digest(Data(2))]
    /\ PointerSynced(fs, last.op.path)

-----------------------------------------------------------------------------
(* The key file *)

\* C23: whenever the key fetch has returned, with the key or with an error
\* (steghide exited non-zero, or the extracted file could not be read), the
\* file /tmp/extracted_key.txt does not exist; so no ledger or pointer
\* function leaves a key file behind.
C23_NoKeyFileLeft ==
    pc = "key"
    => /\ ~Exists(fs, tempKeyFile)
       /\ \A tool \in ToolOutcomes, kf \in KeyFaults :
             ~Exists(extractKeyFromImage(fs, tool, kf).fs, tempKeyFile)

-----------------------------------------------------------------------------
(* Operations the executor has no case for *)

\* the kinds the switch of executor e sends to its default case
Unhandled(e) == IF e = "rollback" THEN {"unknown", "modify_defaults"} ELSE {"unknown"}

\* C24: an operation of a kind the executor does not handle (in the
\* rollback executor modify_defaults too) is only logged: the step changes
\* no file and leaves err nil; main then goes on with the loop, with no
\* exit code set and no file changed, so the operations after it are run
\* and the process exits 0 when none of them fails.
C24_UnknownOperation ==
    [][/\ (OpStep /\ last'.op.operation \in {"unknown", "modify_defaults"}
                  /\ last'.op.operation \in Unhandled(exe))
           => /\ fs' = fs
              /\ last'.err = ""
              /\ results' = Append(results, "")
       /\ (pc = "ran" /\ last.op.operation \in Unhandled(exe))
           => /\ pc' = "loop" /\ exitCode' = -1
              /\ fs' = fs /\ results' = results
       /\ (pc = "loop" /\ pc' = "exited" /\ \A i \in DOMAIN results : results[i] = "")
           => exitCode' = 0 /\ fs' = fs]_vars

\* the rollback executor was given modify_defaults as the second operation
\* of its manifest: the defaults file is as it was
C24_Witness ==
    /\ Done("rollback", "modify_defaults", "")
    /\ results = <<"", "">>
    /\ fs[defaultsFile] = FactoryDefaults
    /\ fs[tempFile] = NoFile

-----------------------------------------------------------------------------
(* Ledger entries and the files they name *)

\* every entry (p, h) of every ledger of f that loads has a file at p whose
\* digest is h
Consistent(f) ==
    \A d \in Dirs :
    \A i \in DOMAIN LedgerOf(f, d) :
       /\ Exists(f, LedgerOf(f, d)[i].path)
       /\ computeChecksum(f, LedgerOf(f, d)[i].path) = LedgerOf(f, d)[i].hash

\* C25: at the end of every forward or rollback run, completed or aborted
\* on a failing operation, every ledger entry (p, h) has a file at p whose
\* digest is h.  Before the first run every entry has; so the first run
\* that ends otherwise started from a state in which every entry had.
C25_LedgerMatchesFiles ==
    pc = "exited" => Consistent(fs)

-----------------------------------------------------------------------------
(* Rollback add and the checksum of the manifest *)

\* the copy of rollback add op succeeds and the digest of the destination
\* is the digest of the source
CopiedAndVerified(f, op, fault) ==
    LET cp == copyFile(f, op.source, op.path, fault)
    IN  /\ cp.err = ""
        /\ computeChecksum(cp.fs, op.path) = computeChecksum(cp.fs, op.source)

\* the other steps of rollback add op succeed: the directory is made, the
\* digests are computed, the ledger and the pointer are updated and the
\* source is deleted
OtherStepsSucceed(f, op, fault, n1, n2) ==
    LET cp == copyFile(f, op.source, op.path, fault)
        db == updateIntegrityDatabase(cp.fs, op.path, computeChecksum(cp.fs, op.path),
                                      fault, n1)
        pt == updateFolderFile(db.fs, Dir(op.path), db.hash, fault, n2)
    IN  fault \notin {"mkdir", "sum", "rm"} /\ db.err = "" /\ pt.err = ""

\* rollback add of op does the same whatever checksum the manifest declares,
\* and when it returns nil the ledger has the entry (path, digest of the
\* source)
SameForEveryChecksum(f, op, fault, n1, n2) ==
    LET r == rbAddFile(f, op, fault, n1, n2)
    IN  /\ \A h \in Hashes \cup {EmptyHash} :
              rbAddFile(f, [op EXCEPT !.checksum = h], fault, n1, n2) = r
        /\ r.err = ""
              => /\ r.fs[op.path] = f[op.source]
                 /\ HashesOf(r.fs, op.path) = {computeChecksum(f, op.source)}

\* C26 as stated: rollback add does not depend on the checksum of the
\* manifest: two rollback adds that differ only in it have the same outcome;
\* the operation succeeds exactly when the copy succeeds and the digest of
\* the destination equals the digest of the source, and the hash it records
\* in the ledger is that digest.
C26_SucceedsWhenVerified ==
    (pc = "loop" /\ exe = "rollback")
    => \A op \in RbAddOps, fault \in AddFaults :
       \A n1 \in FreshNonces(fs, DbPath(Dir(op.path))),
          n2 \in FreshNonces(fs, FolderFile(Dir(op.path))) :
          /\ SameForEveryChecksum(fs, op, fault, n1, n2)
          /\ rbAddFile(fs, op, fault, n1, n2).err = "" <=> CopiedAndVerified(fs, op, fault)

\* C26: rollback add does not depend on the checksum of the manifest: two
\* rollback adds that differ only in it have the same outcome; the operation
\* succeeds exactly when the copy succeeds, the digest of the destination
\* equals the digest of the source, and every other step succeeds (making
\* the directory, computing the digests, updating the ledger and the
\* pointer, deleting the source); the hash it records in the ledger is the
\* computed digest.
C26_ChecksumIgnored ==
    (pc = "loop" /\ exe = "rollback")
    => \A op \in RbAddOps, fault \in AddFaults :
       \A n1 \in FreshNonces(fs, DbPath(Dir(op.path))),
          n2 \in FreshNonces(fs, FolderFile(Dir(op.path))) :
          /\ SameForEveryChecksum(fs, op, fault, n1, n2)
          /\ rbAddFile(fs, op, fault, n1, n2).err = ""
                <=> (CopiedAndVerified(fs, op, fault)
                       /\ OtherStepsSucceed(fs, op, fault, n1, n2))

\* a rollback add put a shipped file back from the backup under a manifest
\* that declares the digest of another content
C26_Witness ==
    /\ Done("rollback", "add", "")
    /\ fs[last.op.path] = Data(2)
    /\ last.op.checksum = Digest(Data(1))
    /\ HashesOf(fs, last.op.path) = {Digest(Data(2))}
    /\ fs[last.op.source] = NoFile

-----------------------------------------------------------------------------
(* Rollback remove of a path that holds no file *)

\* the pointer file of d is there and does not open
PointerUnreadable(f, d) ==
    f[FolderFile(d)] # NoFile /\ ~decryptFile(Key, f[FolderFile(d)]).ok

\* C27: rollback remove of a path at which no file is returns nil when the
\* ledger and pointer steps do not fail, and whenever it returns nil it has
\* done the clean-up of the ledger that forward remove skips: the ledger
\* file of the directory is written anew (made, if there was none) with the
\* entries it had except those of the path, the pointer records the digest
\* of the bytes written, and no other file changes.
C27_RollbackRemoveMissing ==
    (pc = "loop" /\ exe = "rollback")
    => \A op \in RbRemoveOps :
          fs[op.path] = NoFile
          => \A fault \in RbRemoveFaults :
             \A n1 \in FreshNonces(fs, DbPath(Dir(op.path))),
                n2 \in FreshNonces(fs, FolderFile(Dir(op.path))) :
                LET d == Dir(op.path)
                    r == rbRemoveFile(fs, op, fault, n1, n2)
                    kept == SelectSeq(LedgerOf(fs, d), LAMBDA e : e.path # op.path)
                IN  /\ (fault \in {"none", "stat2", "sum", "rm"}
                           /\ ~Undecryptable(fs, d) /\ ~PointerUnreadable(fs, d))
                         => r.err = ""
                    /\ r.err = ""
                         => /\ r.fs[DbPath(d)] = encryptFile(Key, MarshalEntries(kept), n1)
                            /\ r.fs[DbPath(d)] # fs[DbPath(d)]
                            /\ PointerSynced(r.fs, d)
                            /\ \A q \in DOMAIN fs \ {DbPath(d), FolderFile(d)} :
                                  r.fs[q] = fs[q]

\* a rollback remove in a directory that had no file and no ledger made the
\* ledger, with no entry, and the pointer
C27_Witness ==
    /\ Done("rollback", "remove", "")
    /\ results = <<"">>
    /\ fs[last.op.path] = NoFile
    /\ fs[Static(Dir(last.op.path))] = NoFile
    /\ Exists(fs, DbPath(Dir(last.op.path)))
    /\ LoadLedger(fs, DbPath(Dir(last.op.path))) = [err |-> "", entries |-> <<>>]
    /\ PointerSynced(fs, Dir(last.op.path))

-----------------------------------------------------------------------------
(* modify_defaults and the order of Go's maps *)

\* what modifyDefaults can do with the entries on the files f, one result
\* for each order in which the ranges over the maps can run
ModifyResults(f, entries) ==
    {modifyDefaults(f, entries, "none", flat, order, 0) :
        flat \in FlatEntries(entries), order \in KeyOrders(EntryKeys(entries))}

\* C28: modify_defaults is deterministic: for a defaults file and an
\* entries map, every execution writes the same bytes, also when two
\* sections of the entries have the same key with different values and when
\* several requested keys are missing from the file and are appended.
C28_ModifyDeterministic ==
    pc = "config"
    => \A entries \in CfgEntries : Cardinality(ModifyResults(fs, entries)) = 1

-----------------------------------------------------------------------------
(* Names of the backups *)

\* C29: the name of the backup is injective: two different paths that
\* forward remove is given have two different backup files, so the backup
\* that the remove of one file made is not overwritten by the remove of
\* another.
C29_BackupNamesDiffer ==
    /\ \A p, q \in DestFiles : p # q => BackupPath(p) # BackupPath(q)
    /\ (pc = "loop" /\ exe = "forward")
          => \A p, q \in DestFiles :
                LET first == removeFile(fs, Op("remove", p, <<>>, EmptyHash), "none", "n1", "n1")
                    second == removeFile(first.fs, Op("remove", q, <<>>, EmptyHash),
                                         "none", "n2", "n2")
                IN  (p # q /\ Exists(fs, p) /\ first.err = "" /\ second.err = "")
                    => second.fs[BackupPath(p)] = fs[p]

-----------------------------------------------------------------------------
(* The installer script when a step fails *)

\* C30: every failure path of the installer script ends: whenever a step
\* fails and handle_error is called, the error is logged, the status of the
\* metadata is set to "fail" if it can be, and the script exits with code 1
\* after finitely many steps, also when the metadata file is missing or the
\* update of the status fails.
C30_FailureExits ==
    (pc = "handle_error") ~> (pc = "exited" /\ exitCode = 1)

====
